---- MODULE Spec2Model ----
(***************************************************************************)
(* A model of the keyfile codec (github.com/ksckaan1/keyfile): the Encoder *)
(* (encoder.go), the Decoder (decoder part of keyfile.go), the tag and     *)
(* escape helpers (helper.go) and Marshal / Unmarshal.                     *)
(*                                                                         *)
(* Go strings are sequences of one-character strings, so that splitting,   *)
(* trimming, escaping, formatting and parsing are computed character by    *)
(* character as the code computes them.                                    *)
(***************************************************************************)
EXTENDS Integers, Sequences, FiniteSets, TLC

(***************************************************************************)
(* Characters                                                              *)
(***************************************************************************)
TAB == "\t"
LF == "\n"
CR == "\r"
SP == " "
BSL == "\\"

\* The characters of the model's inputs, in ascending byte order.
Ascii ==
    << TAB, LF, CR, SP, "#", "(", ")", "+", ",", "-", ".",
       "0", "1", "2", "3", "4", "5", "6", "7", "8", "9", ":", ";", "=",
       "A", "B", "C", "D", "E", "F", "G", "H", "I", "J", "K", "L", "M",
       "N", "O", "P", "Q", "R", "S", "T", "U", "V", "W", "X", "Y", "Z",
       "[", BSL, "]",
       "a", "b", "c", "d", "e", "f", "g", "h", "i", "j", "k", "l", "m",
       "n", "o", "p", "q", "r", "s", "t", "u", "v", "w", "x", "y", "z" >>

CharCode(c) == CHOOSE i \in 1..Len(Ascii) : Ascii[i] = c

Digits == <<"0", "1", "2", "3", "4", "5", "6", "7", "8", "9">>
IsDigit(c) == \E i \in 1..10 : Digits[i] = c
DigitVal(c) == (CHOOSE i \in 1..10 : Digits[i] = c) - 1

\* unicode.IsSpace, on the model's characters
IsSpace(c) == c \in {SP, TAB, LF, CR}

Lower ==
    << "a", "b", "c", "d", "e", "f", "g", "h", "i", "j", "k", "l", "m",
       "n", "o", "p", "q", "r", "s", "t", "u", "v", "w", "x", "y", "z" >>
Upper ==
    << "A", "B", "C", "D", "E", "F", "G", "H", "I", "J", "K", "L", "M",
       "N", "O", "P", "Q", "R", "S", "T", "U", "V", "W", "X", "Y", "Z" >>
ToLowerChar(c) ==
    IF \E i \in 1..26 : Upper[i] = c
    THEN Lower[CHOOSE i \in 1..26 : Upper[i] = c]
    ELSE c
ToLower(s) == [i \in 1..Len(s) |-> ToLowerChar(s[i])]

(***************************************************************************)
(* package strings                                                         *)
(***************************************************************************)
Slice(s, a, b) == IF a > b THEN <<>> ELSE SubSeq(s, a, b)
Drop(s, n) == Slice(s, n + 1, Len(s))
Take(s, n) == Slice(s, 1, n)

HasPrefix(s, p) == Len(p) <= Len(s) /\ Take(s, Len(p)) = p
HasSuffix(s, p) == Len(p) <= Len(s) /\ Drop(s, Len(s) - Len(p)) = p

\* the least element of a non-empty set of integers
Min(S) == CHOOSE i \in S : \A j \in S : i <= j
Max(S) == CHOOSE i \in S : \A j \in S : i >= j
\* the least element of S, or 0 when S is empty
MinOr0(S) == IF S = {} THEN 0 ELSE Min(S)

\* 0 when sub does not occur in s, else the first position where it does
Index(s, sub) ==
    MinOr0({i \in 1..(Len(s) - Len(sub) + 1) : Slice(s, i, i + Len(sub) - 1) = sub})
Contains(s, sub) == Index(s, sub) # 0

\* strings.Trim(s, cutset), cutset a set of characters
TrimLeftSet(s, cut) ==
    LET from(keep) == IF keep = {} THEN <<>> ELSE Drop(s, Min(keep) - 1)
    IN  from({i \in 1..Len(s) : s[i] \notin cut})
TrimRightSet(s, cut) ==
    LET upto(keep) == IF keep = {} THEN <<>> ELSE Take(s, Max(keep))
    IN  upto({i \in 1..Len(s) : s[i] \notin cut})
TrimSet(s, cut) == TrimRightSet(TrimLeftSet(s, cut), cut)
TrimSpace(s) == TrimSet(s, {SP, TAB, LF, CR})

RECURSIVE ReplaceAll(_, _, _)
ReplaceAll(s, old, new) ==
    LET at(i) == IF i = 0 THEN s
                 ELSE Take(s, i - 1) \o new
                      \o ReplaceAll(Drop(s, i - 1 + Len(old)), old, new)
    IN  at(Index(s, old))

RECURSIVE Repeat(_, _)
Repeat(s, n) == IF n <= 0 THEN <<>> ELSE s \o Repeat(s, n - 1)

RECURSIVE Join(_, _)
Join(elems, sep) ==
    IF Len(elems) = 0 THEN <<>>
    ELSE IF Len(elems) = 1 THEN elems[1]
    ELSE elems[1] \o sep \o Join(Tail(elems), sep)

\* byte-wise string order (sort.Strings)
RECURSIVE StrLess(_, _)
StrLess(a, b) ==
    IF Len(b) = 0 THEN FALSE
    ELSE IF Len(a) = 0 THEN TRUE
    ELSE IF a[1] = b[1] THEN StrLess(Tail(a), Tail(b))
    ELSE CharCode(a[1]) < CharCode(b[1])

RECURSIVE SortStrings(_)
SortStrings(S) ==
    LET from(m) == <<m>> \o SortStrings(S \ {m})
    IN  IF S = {} THEN <<>>
        ELSE from(CHOOSE x \in S : \A y \in S : y = x \/ StrLess(x, y))

\* cmp.Or on strings: the first non-empty argument
CmpOr(a, b) == IF a # <<>> THEN a ELSE b

(***************************************************************************)
(* package strconv.  Numerals of the model have at most nine digits, so    *)
(* values stay far inside the 64-bit range; a numeral of twenty or more    *)
(* significant digits is reported out of range as ParseInt does.           *)
(***************************************************************************)
NoErr == [type |-> "nil"]
ErrSyntax == [type |-> "strconv.ErrSyntax"]
ErrRange == [type |-> "strconv.ErrRange"]

AllDigits(s) == Len(s) > 0 /\ \A i \in 1..Len(s) : IsDigit(s[i])

RECURSIVE DigitsVal(_, _)
DigitsVal(s, acc) ==
    IF Len(s) = 0 THEN acc ELSE DigitsVal(Tail(s), acc * 10 + DigitVal(s[1]))

Significant(s) == TrimLeftSet(s, {"0"})

\* strconv.ParseUint(s, 10, 64): digits only, no sign
ParseUint(s) ==
    IF ~AllDigits(s) THEN [err |-> ErrSyntax, v |-> 0]
    ELSE IF Len(Significant(s)) > 19 THEN [err |-> ErrRange, v |-> 0]
    ELSE [err |-> NoErr, v |-> DigitsVal(s, 0)]

\* strconv.ParseInt(s, 10, 64): an optional sign, then digits
ParseInt(s) ==
    LET signed(u, neg) ==
            IF u.err # NoErr THEN u
            ELSE [err |-> NoErr, v |-> IF neg THEN 0 - u.v ELSE u.v]
    IN  IF Len(s) = 0 THEN [err |-> ErrSyntax, v |-> 0]
        ELSE signed(ParseUint(IF s[1] \in {"+", "-"} THEN Tail(s) ELSE s), s[1] = "-")

\* strconv.FormatInt(n, 10) / strconv.FormatUint(n, 10)
RECURSIVE FormatNat(_)
FormatNat(n) ==
    IF n < 10 THEN <<Digits[n + 1]>>
    ELSE FormatNat(n \div 10) \o <<Digits[(n % 10) + 1]>>
FormatInt(n) == IF n < 0 THEN <<"-">> \o FormatNat(0 - n) ELSE FormatNat(n)

\* strconv.ParseBool: exactly these twelve spellings
ParseBool(s) ==
    IF s \in { <<"1">>, <<"t">>, <<"T">>, <<"T","R","U","E">>,
               <<"t","r","u","e">>, <<"T","r","u","e">> }
    THEN [err |-> NoErr, v |-> TRUE]
    ELSE IF s \in { <<"0">>, <<"f">>, <<"F">>, <<"F","A","L","S","E">>,
                    <<"f","a","l","s","e">>, <<"F","a","l","s","e">> }
    THEN [err |-> NoErr, v |-> FALSE]
    ELSE [err |-> ErrSyntax, v |-> FALSE]
FormatBool(b) == IF b THEN <<"t","r","u","e">> ELSE <<"f","a","l","s","e">>

(* A float is m * 10^(-d) (sp = "num", d >= 0, m not a multiple of ten     *)
(* unless d = 0), or an infinity (sp = "inf", m = 1 or -1) or NaN.         *)
RECURSIVE Pow10(_)
Pow10(n) == IF n <= 0 THEN 1 ELSE 10 * Pow10(n - 1)

RECURSIVE NormFloat(_, _)
NormFloat(m, d) ==
    IF d > 0 /\ m % 10 = 0 THEN NormFloat(m \div 10, d - 1)
    ELSE [sp |-> "num", m |-> m, d |-> d]
MkFloat(m, e) == IF e >= 0 THEN NormFloat(m * Pow10(e), 0) ELSE NormFloat(m, 0 - e)
FloatOfInt(n) == [sp |-> "num", m |-> n, d |-> 0]
FloatInf(sign) == [sp |-> "inf", m |-> sign, d |-> 0]
FloatNaN == [sp |-> "nan", m |-> 0, d |-> 0]

\* length of the common prefix of s and the lower-case word w, ignoring case
RECURSIVE CommonPrefixLenIgnoreCase(_, _)
CommonPrefixLenIgnoreCase(s, w) ==
    IF Len(s) = 0 \/ Len(w) = 0 \/ ToLowerChar(s[1]) # w[1] THEN 0
    ELSE 1 + CommonPrefixLenIgnoreCase(Tail(s), Tail(w))

\* strconv.special: [ok, n, f] for an infinity or NaN at the start of s
Special(s) ==
    LET none == [ok |-> FALSE, n |-> 0, f |-> FloatNaN]
        inf(n, nsign, sign) ==
            IF n = 8 THEN [ok |-> TRUE, n |-> nsign + 8, f |-> FloatInf(sign)]
            ELSE IF n >= 3 THEN [ok |-> TRUE, n |-> nsign + 3, f |-> FloatInf(sign)]
            ELSE none
        nan(n) == IF n = 3 THEN [ok |-> TRUE, n |-> 3, f |-> FloatNaN] ELSE none
    IN  IF Len(s) = 0 THEN none
        ELSE IF s[1] \in {"+", "-", "i", "I"}
        THEN inf(CommonPrefixLenIgnoreCase(IF s[1] \in {"+", "-"} THEN Tail(s) ELSE s,
                                           <<"i","n","f","i","n","i","t","y">>),
                 IF s[1] \in {"+", "-"} THEN 1 ELSE 0,
                 IF s[1] = "-" THEN 0 - 1 ELSE 1)
        ELSE IF s[1] \in {"n", "N"}
        THEN nan(CommonPrefixLenIgnoreCase(s, <<"n","a","n">>))
        ELSE none

\* the mantissa loop of strconv.readFloat from position i (1-based):
\* [i, sawdot, sawdigits, mant, frac] when the loop stops
RECURSIVE ReadMantissa(_, _, _, _, _, _)
ReadMantissa(s, i, sawdot, sawdigits, mant, frac) ==
    IF i > Len(s)
    THEN [i |-> i, sawdigits |-> sawdigits, mant |-> mant, frac |-> frac]
    ELSE IF s[i] = "." /\ ~sawdot
    THEN ReadMantissa(s, i + 1, TRUE, sawdigits, mant, frac)
    ELSE IF IsDigit(s[i])
    THEN ReadMantissa(s, i + 1, sawdot, TRUE, mant * 10 + DigitVal(s[i]),
                      IF sawdot THEN frac + 1 ELSE frac)
    ELSE [i |-> i, sawdigits |-> sawdigits, mant |-> mant, frac |-> frac]

RECURSIVE ReadExpDigits(_, _, _)
ReadExpDigits(s, i, e) ==
    IF i <= Len(s) /\ IsDigit(s[i]) THEN ReadExpDigits(s, i + 1, e * 10 + DigitVal(s[i]))
    ELSE [i |-> i, e |-> e]

\* strconv.parseFloatPrefix (decimal forms): [ok, n, f], n the characters consumed
ParseFloatPrefix(s) ==
    LET bad == [ok |-> FALSE, n |-> 0, f |-> FloatNaN]
        float(n, mant, neg, e) ==
            [ok |-> TRUE, n |-> n, f |-> MkFloat(IF neg THEN 0 - mant ELSE mant, e)]
        exponent(r, neg, x, eneg) ==
            float(x.i - 1, r.mant, neg, (IF eneg THEN 0 - x.e ELSE x.e) - r.frac)
        \* the digits of the exponent start at j
        expFrom(r, neg, j, eneg) ==
            IF j > Len(s) \/ ~IsDigit(s[j]) THEN bad
            ELSE exponent(r, neg, ReadExpDigits(s, j, 0), eneg)
        mantissa(r, neg) ==
            IF ~r.sawdigits THEN bad
            ELSE IF r.i <= Len(s) /\ ToLowerChar(s[r.i]) = "e"
            THEN expFrom(r, neg,
                         IF r.i < Len(s) /\ s[r.i + 1] \in {"+", "-"} THEN r.i + 2 ELSE r.i + 1,
                         r.i < Len(s) /\ s[r.i + 1] = "-")
            ELSE float(r.i - 1, r.mant, neg, 0 - r.frac)
        number(sp) ==
            IF sp.ok THEN sp
            ELSE IF Len(s) = 0 THEN bad
            ELSE mantissa(ReadMantissa(s, IF s[1] \in {"+", "-"} THEN 2 ELSE 1,
                                       FALSE, FALSE, 0, 0),
                          s[1] = "-")
    IN  number(Special(s))

\* strconv.ParseFloat(s, 64): the whole of s must be consumed
ParseFloat(s) ==
    LET whole(p) == IF p.ok /\ p.n = Len(s) THEN [err |-> NoErr, v |-> p.f]
                    ELSE [err |-> ErrSyntax, v |-> FloatNaN]
    IN  whole(ParseFloatPrefix(s))

\* strconv.FormatFloat(f, 'f', -1, 64)
FormatFloat(f) ==
    LET digits(neg, ip, fd) ==
            (IF neg THEN <<"-">> ELSE <<>>) \o ip
            \o (IF f.d = 0 THEN <<>> ELSE <<".">> \o Repeat(<<"0">>, f.d - Len(fd)) \o fd)
        abs(a) == digits(f.m < 0, FormatNat(a \div Pow10(f.d)), FormatNat(a % Pow10(f.d)))
    IN  IF f.sp = "nan" THEN <<"N","a","N">>
        ELSE IF f.sp = "inf"
        THEN (IF f.m < 0 THEN <<"-">> ELSE <<"+">>) \o <<"I","n","f">>
        ELSE abs(IF f.m < 0 THEN 0 - f.m ELSE f.m)

\* strconv.ParseComplex(s, bitSize)
ParseComplex(s) ==
    LET bad == [err |-> ErrSyntax, v |-> [re |-> FloatNaN, im |-> FloatNaN]]
        imag(p, r2, q) ==
            IF q.ok /\ Drop(r2, q.n) = <<"i">>
            THEN [err |-> NoErr, v |-> [re |-> p.f, im |-> q.f]]
            ELSE bad
        second(p, r2) == imag(p, r2, ParseFloatPrefix(r2))
        rest(p, r1) ==
            IF ~p.ok THEN bad
            ELSE IF Len(r1) = 0 THEN [err |-> NoErr, v |-> [re |-> p.f, im |-> FloatOfInt(0)]]
            ELSE IF r1[1] = "i"
            THEN IF Len(r1) = 1
                 THEN [err |-> NoErr, v |-> [re |-> FloatOfInt(0), im |-> p.f]]
                 ELSE bad
            ELSE IF r1[1] \notin {"+", "-"} THEN bad
            ELSE second(p, IF r1[1] = "+" /\ Len(r1) > 1 /\ r1[2] # "+" THEN Tail(r1) ELSE r1)
        first(s1, p) == rest(p, Drop(s1, p.n))
        inner(s1) == first(s1, ParseFloatPrefix(s1))
    IN  inner(IF Len(s) >= 2 /\ s[1] = "(" /\ s[Len(s)] = ")"
              THEN Slice(s, 2, Len(s) - 1) ELSE s)

\* strconv.FormatComplex(c, 'f', -1, 64)
FormatComplex(c) ==
    LET signed(im) == IF im[1] \in {"+", "-"} THEN im ELSE <<"+">> \o im
    IN  <<"(">> \o FormatFloat(c.re) \o signed(FormatFloat(c.im)) \o <<"i", ")">>

RECURSIVE Pow2(_)
Pow2(n) == IF n <= 0 THEN 1 ELSE 2 * Pow2(n - 1)

\* reflect.Value.Convert from a 64-bit integer to an integer kind of the
\* given width: the low bits are kept (two's complement for signed kinds).
ConvertInt(v, bits, signed) ==
    LET low(m, x) == IF signed /\ x >= m \div 2 THEN x - m ELSE x
        wrap(m) == low(m, v % m)
    IN  IF bits >= 32 THEN v ELSE wrap(Pow2(bits))

(***************************************************************************)
(* helper.go                                                               *)
(***************************************************************************)
\* A struct tag after reflect.StructTag.Lookup("keyfile"): ok says whether
\* the field has a keyfile tag, val is the tag's text.
NoTag == [ok |-> FALSE, val |-> <<>>]
Tag(text) == [ok |-> TRUE, val |-> text]

\* split: the loop over the characters of value, from position i
RECURSIVE splitLoop(_, _, _, _, _)
splitLoop(value, sep, i, result, buff) ==
    IF i > Len(value)
    THEN IF Len(buff) > 0 THEN Append(result, buff) ELSE result
    ELSE IF i = 1 /\ <<value[i]>> = sep
    THEN splitLoop(value, sep, i + 1, Append(result, buff), <<>>)
    ELSE IF <<value[i]>> = sep /\ value[i - 1] # BSL
    THEN splitLoop(value, sep, i + 1, Append(result, buff), <<>>)
    ELSE splitLoop(value, sep, i + 1, result, Append(buff, value[i]))

\* split, but the empty value has one empty segment, as with strings.Split
splitKeepsEmpty(value, sep) ==
    IF value = <<>> THEN << <<>> >> ELSE splitLoop(value, sep, 1, <<>>, <<>>)

split(value, sep) == splitLoop(value, sep, 1, <<>>, <<>>)

TagParts(tag) == split(tag.val, <<",">>)

\* slices.ContainsFunc(parts, ...): some part is word, spaces aside
HasPart(parts, word) == \E i \in 1..Len(parts) : TrimSpace(parts[i]) = word

isOmitempty(tag) ==
    tag.ok /\ HasPart(TagParts(tag), <<"o","m","i","t","e","m","p","t","y">>)

isIgnored(tag) == tag.ok /\ HasPart(TagParts(tag), <<"-">>)

IsNamePart(part) ==
    /\ ~Contains(part, <<"=">>)
    /\ part # <<"-">>
    /\ part # <<"o","m","i","t","e","m","p","t","y">>

\* the parts of a tag, each with the spaces around it trimmed
Trimmed(parts) == [i \in 1..Len(parts) |-> TrimSpace(parts[i])]

\* getKeyName, but the first part of the tag is the name, whatever it is
getKeyNameFirst(tag) ==
    LET name(parts) == IF Len(parts) = 0 THEN <<>> ELSE parts[1]
    IN  IF ~tag.ok THEN <<>> ELSE name(Trimmed(TagParts(tag)))

getKeyName(tag) ==
    LET first(parts, hits) == IF hits = {} THEN <<>> ELSE parts[Min(hits)]
        name(parts) == first(parts, {i \in 1..Len(parts) : IsNamePart(parts[i])})
    IN  IF ~tag.ok THEN <<>> ELSE name(Trimmed(TagParts(tag)))

getSeperator(tag) ==
    LET first(parts, hits) ==
            IF hits = {} THEN <<>>
            ELSE ReplaceAll(Drop(parts[Min(hits)], 4), <<BSL>>, <<>>)
        sep(parts) ==
            first(parts, {i \in 1..Len(parts) : HasPrefix(parts[i], <<"s","e","p","=">>)})
    IN  IF ~tag.ok THEN <<>> ELSE CmpOr(sep(Trimmed(TagParts(tag))), <<";">>)

unescape(value) ==
    ReplaceAll(
      ReplaceAll(
        ReplaceAll(
          ReplaceAll(value, <<BSL, "s">>, <<SP>>),
          <<BSL, "n">>, <<LF>>),
        <<BSL, "r">>, <<CR>>),
      <<BSL, "t">>, <<TAB>>)

\* replaceSpaces: the leading and the trailing run of white space, each
\* replaced by one \s per character
replaceSpaces(input) ==
    LET marks(lead, core, trail) ==
            Repeat(<<BSL, "s">>, lead) \o core \o Repeat(<<BSL, "s">>, trail)
        right(body, core) == marks(Len(input) - Len(body), core, Len(body) - Len(core))
        left(body) == right(body, TrimRightSet(body, {SP, TAB, LF, CR}))
    IN  left(TrimLeftSet(input, {SP, TAB, LF, CR}))

escape(value) ==
    replaceSpaces(
      ReplaceAll(
        ReplaceAll(
          ReplaceAll(value, <<LF>>, <<BSL, "n">>),
          <<CR>>, <<BSL, "r">>),
        <<TAB>>, <<BSL, "t">>))

(***************************************************************************)
(* package reflect: types and values.                                      *)
(*                                                                         *)
(* A type is a record with its kind k and its name str (Type.String());    *)
(* slice, map and pointer types carry elem, map types key, struct types    *)
(* their fields.  A value is a character sequence (string), an integer, a  *)
(* boolean, a float or complex record, [nil, elems] (slice), [nil, m]      *)
(* (map), [nil, elem] (pointer), [nil, dyn, v] (interface) or the sequence *)
(* of its field values (struct).  A reflect.Value is [t, v].               *)
(***************************************************************************)
TInvalid == [k |-> "invalid", str |-> "<invalid>"]
TString == [k |-> "string", str |-> "string"]
TBool == [k |-> "bool", str |-> "bool"]
TInt(kind) == [k |-> kind, str |-> kind]
TFloat64 == [k |-> "float64", str |-> "float64"]
TComplex128 == [k |-> "complex128", str |-> "complex128"]
TAny == [k |-> "interface", str |-> "interface {}"]
TSlice(e) == [k |-> "slice", str |-> "[]" \o e.str, elem |-> e]
TMap(kt, e) == [k |-> "map", str |-> "map[" \o kt.str \o "]" \o e.str, key |-> kt, elem |-> e]
TPtr(e) == [k |-> "ptr", str |-> "*" \o e.str, elem |-> e]
TStruct(name, fields) == [k |-> "struct", str |-> name, fields |-> fields]
\* a struct field declaration
Field(name, tag, typ) == [name |-> name, tag |-> tag, typ |-> typ]

SignedKinds == {"int", "int8", "int16", "int32", "int64"}
UnsignedKinds == {"uint", "uint8", "uint16", "uint32", "uint64"}
FloatKinds == {"float32", "float64"}
ComplexKinds == {"complex64", "complex128"}
KindBits(kind) ==
    IF kind \in {"int8", "uint8"} THEN 8
    ELSE IF kind \in {"int16", "uint16"} THEN 16
    ELSE IF kind \in {"int32", "uint32"} THEN 32
    ELSE 64

\* reflect.StructField.IsExported: the name starts with an upper-case letter
IsExported(f) == Len(f.name) > 0 /\ \E i \in 1..26 : Upper[i] = f.name[1]

RV(t, v) == [t |-> t, v |-> v]
InvalidRV == RV(TInvalid, <<>>)
IsValid(rv) == rv.t.k # "invalid"

\* reflect.Value.Elem of a pointer or an interface
Elem(rv) ==
    IF rv.v.nil THEN InvalidRV
    ELSE IF rv.t.k = "ptr" THEN RV(rv.t.elem, rv.v.elem)
    ELSE RV(rv.v.dyn, rv.v.v)

NilPtr == [nil |-> TRUE]
PtrTo(v) == [nil |-> FALSE, elem |-> v]
NilAny == [nil |-> TRUE]
AnyOf(t, v) == [nil |-> FALSE, dyn |-> t, v |-> v]
NilSlice == [nil |-> TRUE, elems |-> <<>>]
SliceOf(elems) == [nil |-> FALSE, elems |-> elems]
EmptyFn == [x \in {} |-> <<>>]
NilMap == [nil |-> TRUE, m |-> EmptyFn]
MapOf(m) == [nil |-> FALSE, m |-> m]

\* f with f[x] set to y
Put(f, x, y) == [z \in DOMAIN f \cup {x} |-> IF z = x THEN y ELSE f[z]]

\* reflect.Zero
RECURSIVE Zero(_)
Zero(t) ==
    IF t.k = "string" THEN <<>>
    ELSE IF t.k = "bool" THEN FALSE
    ELSE IF t.k \in SignedKinds \cup UnsignedKinds THEN 0
    ELSE IF t.k \in FloatKinds THEN FloatOfInt(0)
    ELSE IF t.k \in ComplexKinds THEN [re |-> FloatOfInt(0), im |-> FloatOfInt(0)]
    ELSE IF t.k = "slice" THEN NilSlice
    ELSE IF t.k = "map" THEN NilMap
    ELSE IF t.k = "struct" THEN [i \in 1..Len(t.fields) |-> Zero(t.fields[i].typ)]
    ELSE [nil |-> TRUE]

\* reflect.Value.IsZero
RECURSIVE IsZero(_)
IsZero(rv) ==
    IF rv.t.k \in {"slice", "map", "ptr", "interface"} THEN rv.v.nil
    ELSE IF rv.t.k = "struct"
    THEN \A i \in 1..Len(rv.t.fields) : IsZero(RV(rv.t.fields[i].typ, rv.v[i]))
    ELSE rv.v = Zero(rv.t)

(***************************************************************************)
(* Errors                                                                  *)
(***************************************************************************)
ErrParameterMustBePointer == [type |-> "ErrParameterMustBePointer"]
ErrParameterMustNotBeNil == [type |-> "ErrParameterMustNotBeNil"]
ErrInvalidParameterType == [type |-> "ErrInvalidParameterType"]
ErrInvalidMapKeyType == [type |-> "ErrInvalidMapKeyType"]
ErrInvalidGroupType(name, typ) ==
    [type |-> "ErrInvalidGroupType", GroupName |-> name, GroupType |-> typ]
ErrUnsupportedValueType(name, typ) ==
    [type |-> "ErrUnsupportedValueType", FieldName |-> name, FieldType |-> typ]
\* ErrUnsupportedValueType{}
ErrUnsupportedValueTypeZero == ErrUnsupportedValueType(<<>>, "")
ErrCanNotParsed(err, key, name, typ) ==
    [type |-> "ErrCanNotParsed", Err |-> err, SourceKey |-> key,
     TargetName |-> name, TargetType |-> typ]
ErrInvalidGroupName(line, n) ==
    [type |-> "ErrInvalidGroupName", Line |-> line, LineNumber |-> n]
ErrInvalidEntry(line, n) ==
    [type |-> "ErrInvalidEntry", Line |-> line, LineNumber |-> n]
ErrInvalidKey(line, n) ==
    [type |-> "ErrInvalidKey", Line |-> line, LineNumber |-> n]
ErrKeyValuePairMustBeContainedInAGroup(line, n) ==
    [type |-> "ErrKeyValuePairMustBeContainedInAGroup", Line |-> line, LineNumber |-> n]

(***************************************************************************)
(* encoder.go                                                              *)
(*                                                                         *)
(* enc.groups maps a group name to a map from key to a map from sub-key to *)
(* the encoded value.  Go iterates a map in an order it does not fix; ord  *)
(* is that order (TRUE: ascending keys, FALSE: descending), chosen by the  *)
(* environment on every call.                                              *)
(***************************************************************************)
\* Encoder.validateParameter
RECURSIVE EncValidateParameter(_)
EncValidateParameter(rv) ==
    IF rv.t.k = "ptr" THEN EncValidateParameter(Elem(rv))
    ELSE IF rv.t.k # "struct" THEN ErrInvalidParameterType
    ELSE NoErr

\* Encoder.encodeValue, for the field with struct tag `tag`: [err, s]
RECURSIVE encodeValue(_, _)
RECURSIVE encodeSlice(_, _, _, _)
encodeSlice(rv, tag, i, result) ==
    LET next(r) == IF r.err # NoErr THEN [err |-> r.err, s |-> <<>>]
                   ELSE encodeSlice(rv, tag, i + 1, Append(result, r.s))
    IN  IF i > Len(rv.v.elems) THEN [err |-> NoErr, s |-> Join(result, getSeperator(tag))]
        ELSE next(encodeValue(RV(rv.t.elem, rv.v.elems[i]), tag))

encodeValue(rv, tag) ==
    IF ~IsValid(rv) THEN [err |-> NoErr, s |-> <<>>]
    ELSE IF rv.t.k \in {"ptr", "interface"} THEN encodeValue(Elem(rv), tag)
    ELSE IF rv.t.k = "string" THEN [err |-> NoErr, s |-> escape(rv.v)]
    ELSE IF rv.t.k \in SignedKinds \cup UnsignedKinds THEN [err |-> NoErr, s |-> FormatInt(rv.v)]
    ELSE IF rv.t.k = "bool" THEN [err |-> NoErr, s |-> FormatBool(rv.v)]
    ELSE IF rv.t.k \in FloatKinds THEN [err |-> NoErr, s |-> FormatFloat(rv.v)]
    ELSE IF rv.t.k \in ComplexKinds THEN [err |-> NoErr, s |-> FormatComplex(rv.v)]
    ELSE IF rv.t.k = "slice" THEN encodeSlice(rv, tag, 1, <<>>)
    ELSE [err |-> ErrUnsupportedValueTypeZero, s |-> <<>>]

\* reflect.Value.String of a map key: the string itself for a string kind,
\* "<int64 Value>" for the int64 kind (the other key kind of the model)
KeyString(kt, key) ==
    IF kt.k = "string" THEN key
    ELSE <<"<","i","n","t","6","4"," ","V","a","l","u","e",">">>

\* the keys of a map value in iteration order
KeyLess(kt, x, y) == IF kt.k = "string" THEN StrLess(x, y) ELSE x < y
RECURSIVE SortKeys(_, _, _)
SortKeys(kt, S, asc) ==
    LET from(m) == <<m>> \o SortKeys(kt, S \ {m}, asc)
    IN  IF S = {} THEN <<>>
        ELSE from(CHOOSE x \in S : \A y \in S :
                     y = x \/ (IF asc THEN KeyLess(kt, x, y) ELSE ~KeyLess(kt, x, y)))
MapRange(rv, ord) == SortKeys(rv.t.key, DOMAIN rv.v.m, ord)

\* Encoder.encodeMapValue: [err, m]
RECURSIVE encodeMapLoop(_, _, _, _, _)
encodeMapLoop(rv, tag, keys, i, result) ==
    LET next(r) ==
            IF r.err # NoErr THEN [err |-> r.err, m |-> EmptyFn]
            ELSE encodeMapLoop(rv, tag, keys, i + 1,
                               Put(result, KeyString(rv.t.key, keys[i]), r.s))
    IN  IF i > Len(keys) THEN [err |-> NoErr, m |-> result]
        ELSE next(encodeValue(RV(rv.t.elem, rv.v.m[keys[i]]), tag))
encodeMapValue(rv, tag, ord) == encodeMapLoop(rv, tag, MapRange(rv, ord), 1, EmptyFn)

\* errors.Is(err, ErrUnsupportedValueType{}) and the error that names the field
NameField(err, f) ==
    IF err = ErrUnsupportedValueTypeZero
    THEN ErrUnsupportedValueType(f.name, f.typ.str)
    ELSE err

\* Encoder.scanField, for the field declared as f: [err, m]
RECURSIVE scanField(_, _, _)
scanField(rv, f, ord) ==
    LET map(r) == IF r.err # NoErr THEN [err |-> NameField(r.err, f), m |-> EmptyFn] ELSE r
        single(r) == IF r.err # NoErr THEN [err |-> NameField(r.err, f), m |-> EmptyFn]
                     ELSE [err |-> NoErr, m |-> Put(EmptyFn, <<>>, r.s)]
    IN  IF rv.t.k = "ptr" THEN scanField(Elem(rv), f, ord)
        ELSE IF rv.t.k = "map" THEN map(encodeMapValue(rv, f.tag, ord))
        ELSE single(encodeValue(rv, f.tag))

\* a skip test that does not look at the omitempty directive
EncSkipsKeepsEmpty(f, rv) == ~IsExported(f) \/ isIgnored(f.tag)
\* the skip test of Encoder.scan and Encoder.scanGroup
EncSkips(f, rv) ==
    ~IsExported(f) \/ isIgnored(f.tag) \/ (isOmitempty(f.tag) /\ IsZero(rv))

\* cmp.Or(getKeyName(tag), Name)
ResolvedName(f) == CmpOr(getKeyName(f.tag), f.name)

\* Encoder.scanGroup for the group declared as g, whose resolved name is gn:
\* [err, groups]
RECURSIVE scanGroupLoop(_, _, _, _, _)
scanGroupLoop(rv, gn, ord, i, groups) ==
    LET store(f, r) ==
            IF r.err # NoErr THEN [err |-> r.err, groups |-> groups]
            ELSE scanGroupLoop(rv, gn, ord, i + 1,
                               Put(groups, gn, Put(groups[gn], ResolvedName(f), r.m)))
        field(f, fv) ==
            IF EncSkips(f, fv) THEN scanGroupLoop(rv, gn, ord, i + 1, groups)
            ELSE store(f, scanField(fv, f, ord))
    IN  IF i > Len(rv.t.fields) THEN [err |-> NoErr, groups |-> groups]
        ELSE field(rv.t.fields[i], RV(rv.t.fields[i].typ, rv.v[i]))

RECURSIVE scanGroup(_, _, _, _)
scanGroup(rv, g, ord, groups) ==
    IF rv.t.k = "ptr" THEN scanGroup(Elem(rv), g, ord, groups)
    ELSE IF ~IsValid(rv) THEN [err |-> NoErr, groups |-> groups]
    ELSE IF rv.t.k # "struct"
    THEN [err |-> ErrInvalidGroupType(g.name, g.typ.str), groups |-> groups]
    ELSE scanGroupLoop(rv, ResolvedName(g), ord, 1, groups)

\* Encoder.scan: [err, groups]
RECURSIVE scanLoop(_, _, _, _)
\* scanLoop, but a group whose name was met before keeps the keys it has
scanLoopMerges(rv, ord, i, groups) ==
    LET next(r) == IF r.err # NoErr THEN r ELSE scanLoop(rv, ord, i + 1, r.groups)
        opened(name) == IF name \in DOMAIN groups THEN groups ELSE Put(groups, name, EmptyFn)
        group(g, gv) ==
            IF EncSkips(g, gv) THEN scanLoop(rv, ord, i + 1, groups)
            ELSE next(scanGroup(gv, g, ord, opened(ResolvedName(g))))
    IN  IF i > Len(rv.t.fields) THEN [err |-> NoErr, groups |-> groups]
        ELSE group(rv.t.fields[i], RV(rv.t.fields[i].typ, rv.v[i]))
scanLoop(rv, ord, i, groups) ==
    LET next(r) == IF r.err # NoErr THEN r ELSE scanLoop(rv, ord, i + 1, r.groups)
        group(g, gv) ==
            IF EncSkips(g, gv) THEN scanLoop(rv, ord, i + 1, groups)
            ELSE next(scanGroup(gv, g, ord, Put(groups, ResolvedName(g), EmptyFn)))
    IN  IF i > Len(rv.t.fields) THEN [err |-> NoErr, groups |-> groups]
        ELSE group(rv.t.fields[i], RV(rv.t.fields[i].typ, rv.v[i]))

RECURSIVE scan(_, _, _)
scan(rv, ord, groups) ==
    IF rv.t.k = "ptr" THEN scan(Elem(rv), ord, groups)
    ELSE scanLoop(rv, ord, 1, groups)

\* the names of a map in descending order
WriteOrderDescending(S) ==
    LET reversed(order) == [i \in 1..Len(order) |-> order[Len(order) + 1 - i]]
    IN  reversed(SortStrings(S))
\* the order in which Encoder.write visits the names of a map
WriteOrder(S) == SortStrings(S)

\* Encoder.write: the text written for groups
KeyLines(key, subs) ==
    LET line(sub) ==
            key \o (IF sub # <<>> THEN <<"[">> \o sub \o <<"]">> ELSE <<>>)
            \o <<"=">> \o subs[sub] \o <<LF>>
        RECURSIVE cat(_, _)
        cat(order, k) == IF k > Len(order) THEN <<>>
                         ELSE line(order[k]) \o cat(order, k + 1)
    IN  cat(WriteOrder(DOMAIN subs), 1)
GroupLines(name, keys) ==
    LET RECURSIVE cat(_, _)
        cat(order, j) == IF j > Len(order) THEN <<>>
                         ELSE KeyLines(order[j], keys[order[j]]) \o cat(order, j + 1)
    IN  <<"[">> \o name \o <<"]", LF>> \o cat(WriteOrder(DOMAIN keys), 1)
write(groups) ==
    LET RECURSIVE cat(_, _)
        cat(order, i) == IF i > Len(order) THEN <<>>
                         ELSE (IF i > 1 THEN <<LF>> ELSE <<>>)
                              \o GroupLines(order[i], groups[order[i]]) \o cat(order, i + 1)
    IN  cat(WriteOrder(DOMAIN groups), 1)

\* an Encode that writes whatever the scan collected before it reports the
\* error of the scan
EncodeCallWritesFirst(rv, ord, groups) ==
    LET scanned(r) == [err |-> r.err, groups |-> r.groups, out |-> write(r.groups)]
        validated(verr) ==
            IF verr # NoErr THEN [err |-> verr, groups |-> groups, out |-> <<>>]
            ELSE scanned(scan(rv, ord, groups))
    IN  validated(EncValidateParameter(rv))

\* Encoder.Encode on an encoder whose groups are `groups`:
\* [err, groups, out], out the text written by the call
EncodeCall(rv, ord, groups) ==
    LET scanned(r) ==
            IF r.err # NoErr THEN [err |-> r.err, groups |-> r.groups, out |-> <<>>]
            ELSE [err |-> NoErr, groups |-> r.groups, out |-> write(r.groups)]
        validated(verr) ==
            IF verr # NoErr THEN [err |-> verr, groups |-> groups, out |-> <<>>]
            ELSE scanned(scan(rv, ord, groups))
    IN  validated(EncValidateParameter(rv))

\* Marshal: a fresh Encoder on a fresh buffer; [err, out]
Marshal(rv, ord) ==
    LET result(r) == [err |-> r.err, out |-> IF r.err # NoErr THEN <<>> ELSE r.out]
    IN  result(EncodeCall(rv, ord, EmptyFn))

(***************************************************************************)
(* The Decoder (keyfile.go).  A decoder is [r, lineNumber, groups,         *)
(* currentGroupName]: r is what is left to read of its reader.             *)
(***************************************************************************)
\* a decoder that starts inside an implicit group g
NewDecoderInGroup(r) ==
    [r |-> r, lineNumber |-> 0, groups |-> Put(EmptyFn, <<"g">>, EmptyFn),
     currentGroupName |-> <<"g">>]
NewDecoder(r) ==
    [r |-> r, lineNumber |-> 0, groups |-> EmptyFn, currentGroupName |-> <<>>]

\* a validation that looks at the pointee type before the nil check
DecValidateParameterTypeFirst(rv) ==
    IF rv.t.k # "ptr" THEN ErrParameterMustBePointer
    ELSE IF rv.t.elem.k # "struct" THEN ErrInvalidParameterType
    ELSE IF rv.v.nil THEN ErrParameterMustNotBeNil
    ELSE NoErr

\* Decoder.validateParameter
DecValidateParameter(rv) ==
    IF rv.t.k # "ptr" THEN ErrParameterMustBePointer
    ELSE IF rv.v.nil THEN ErrParameterMustNotBeNil
    ELSE IF Elem(rv).t.k # "struct" THEN ErrInvalidParameterType
    ELSE NoErr

\* bufio.Reader.ReadString('\n'): the text up to and including the first
\* line feed, or all that is left (eof) when there is none
ReadString(r) ==
    LET upto(i) == IF i = 0 THEN [line |-> r, rest |-> <<>>, eof |-> TRUE]
                   ELSE [line |-> Take(r, i), rest |-> Drop(r, i), eof |-> FALSE]
    IN  upto(Index(r, <<LF>>))

\* mapValueRgx.FindStringSubmatch(key), the pattern (.*)\[(.*)\] with greedy
\* groups: the last "]" and the last "[" before it
LastIndexOf(s, c, before) ==
    LET last(hits) == IF hits = {} THEN 0 ELSE Max(hits)
    IN  last({i \in 1..Len(s) : s[i] = c /\ i < before})
\* the match of a pattern that knows no sub-key: the whole text is the key
FindStringSubmatchWhole(key) == [ok |-> FALSE, key |-> key, subkey |-> <<>>]
FindStringSubmatch(key) ==
    LET groups(lb, rb) ==
            IF rb = 0 \/ lb = 0 THEN [ok |-> FALSE, key |-> key, subkey |-> <<>>]
            ELSE [ok |-> TRUE, key |-> Take(key, lb - 1),
                  subkey |-> Slice(key, lb + 1, rb - 1)]
        closing(rb) == groups(LastIndexOf(key, "[", rb), rb)
    IN  closing(LastIndexOf(key, "]", Len(key) + 1))

\* strings.SplitN(line, "=", 2)
SplitN2(line) ==
    LET at(i) == IF i = 0 THEN <<line>> ELSE <<Take(line, i - 1), Drop(line, i)>>
    IN  at(Index(line, <<"=">>))

\* openGroup, but a group that was opened before keeps its entries
openGroupKeeps(dec, line, n) ==
    LET named(name) ==
            IF name = <<>>
            THEN [err |-> ErrInvalidGroupName(line, n),
                  dec |-> [dec EXCEPT !.currentGroupName = name]]
            ELSE [err |-> NoErr,
                  dec |-> [dec EXCEPT !.currentGroupName = name,
                                      !.groups = IF name \in DOMAIN dec.groups THEN dec.groups
                                                 ELSE Put(dec.groups, name, EmptyFn)]]
    IN  named(TrimSpace(TrimSet(line, {"[", "]"})))

\* Decoder.scanDocument, the group header branch: [err, dec]
openGroup(dec, line, n) ==
    LET named(name) ==
            IF name = <<>>
            THEN [err |-> ErrInvalidGroupName(line, n),
                  dec |-> [dec EXCEPT !.currentGroupName = name]]
            ELSE [err |-> NoErr,
                  dec |-> [dec EXCEPT !.currentGroupName = name,
                                      !.groups = Put(dec.groups, name, EmptyFn)]]
    IN  named(TrimSpace(TrimSet(line, {"[", "]"})))

\* storeEntry, but an entry whose (group, key, subkey) is already stored is
\* left as the first line wrote it
storeEntryKeepsFirst(dec, line, n) ==
    LET put(g, key, subkey, value) ==
            [err |-> NoErr,
             dec |-> [dec EXCEPT !.groups =
                        Put(dec.groups, g,
                            Put(dec.groups[g], key,
                                IF key \in DOMAIN dec.groups[g]
                                THEN IF subkey \in DOMAIN dec.groups[g][key]
                                     THEN dec.groups[g][key]
                                     ELSE Put(dec.groups[g][key], subkey, value)
                                ELSE Put(EmptyFn, subkey, value)))]]
        entry(sm, value) ==
            IF sm.key = <<>> THEN [err |-> ErrInvalidKey(line, n), dec |-> dec]
            ELSE IF dec.currentGroupName = <<>>
            THEN [err |-> ErrKeyValuePairMustBeContainedInAGroup(line, n), dec |-> dec]
            ELSE put(dec.currentGroupName, sm.key, sm.subkey, unescape(TrimSpace(value)))
        pair(parts) ==
            IF Len(parts) # 2 THEN [err |-> ErrInvalidEntry(line, n), dec |-> dec]
            ELSE entry(FindStringSubmatch(TrimSpace(parts[1])), parts[2])
    IN  pair(SplitN2(line))

\* Decoder.scanDocument, the key-value branch: [err, dec]
storeEntry(dec, line, n) ==
    LET put(g, key, subkey, value) ==
            [err |-> NoErr,
             dec |-> [dec EXCEPT !.groups =
                        Put(dec.groups, g,
                            Put(dec.groups[g], key,
                                Put(IF key \in DOMAIN dec.groups[g]
                                    THEN dec.groups[g][key] ELSE EmptyFn,
                                    subkey, value)))]]
        entry(sm, value) ==
            IF sm.key = <<>> THEN [err |-> ErrInvalidKey(line, n), dec |-> dec]
            ELSE IF dec.currentGroupName = <<>>
            THEN [err |-> ErrKeyValuePairMustBeContainedInAGroup(line, n), dec |-> dec]
            ELSE put(dec.currentGroupName, sm.key, sm.subkey, unescape(TrimSpace(value)))
        pair(parts) ==
            IF Len(parts) # 2 THEN [err |-> ErrInvalidEntry(line, n), dec |-> dec]
            ELSE entry(FindStringSubmatch(TrimSpace(parts[1])), parts[2])
    IN  pair(SplitN2(line))

\* Decoder.scanDocument: [err, dec]
RECURSIVE scanDocument(_)
\* scanDocument, but blank lines and comments are not counted
scanDocumentCountsContent(dec) ==
    LET next(r) == IF r.err # NoErr THEN r ELSE scanDocument(r.dec)
        counted(d1) == [d1 EXCEPT !.lineNumber = @ + 1]
        process(d1, line) ==
            IF line = <<>> THEN scanDocument(d1)
            ELSE IF HasPrefix(line, <<"#">>) THEN scanDocument(d1)
            ELSE IF HasPrefix(line, <<"[">>) /\ HasSuffix(line, <<"]">>)
            THEN next(openGroup(counted(d1), line, d1.lineNumber + 1))
            ELSE next(storeEntry(counted(d1), line, d1.lineNumber + 1))
        read(rd) ==
            IF rd.eof /\ rd.line = <<>>
            THEN [err |-> NoErr,
                  dec |-> [dec EXCEPT !.r = rd.rest, !.lineNumber = @ + 1]]
            ELSE process([dec EXCEPT !.r = rd.rest],
                         TrimSpace(TrimRightSet(rd.line, {CR, LF})))
    IN  read(ReadString(dec.r))
scanDocument(dec) ==
    LET next(r) == IF r.err # NoErr THEN r ELSE scanDocument(r.dec)
        process(d1, line) ==
            IF line = <<>> THEN scanDocument(d1)
            ELSE IF HasPrefix(line, <<"#">>) THEN scanDocument(d1)
            ELSE IF HasPrefix(line, <<"[">>) /\ HasSuffix(line, <<"]">>)
            THEN next(openGroup(d1, line, d1.lineNumber))
            ELSE next(storeEntry(d1, line, d1.lineNumber))
        read(rd) ==
            IF rd.eof /\ rd.line = <<>>
            THEN [err |-> NoErr,
                  dec |-> [dec EXCEPT !.r = rd.rest, !.lineNumber = @ + 1]]
            ELSE process([dec EXCEPT !.r = rd.rest, !.lineNumber = @ + 1],
                         TrimSpace(TrimRightSet(rd.line, {CR, LF})))
    IN  read(ReadString(dec.r))

\* Decoder.isKeyExists
MatchesKey(sm, key) == sm.ok /\ sm.key = key
\* isKeyExists, but a field that is no map needs the entry without a sub-key
isKeyExistsBare(groups, groupName, key, isMap) ==
    IF groupName \notin DOMAIN groups THEN FALSE
    ELSE IF ~isMap THEN key \in DOMAIN groups[groupName]
                        /\ <<>> \in DOMAIN groups[groupName][key]
    ELSE \E k \in DOMAIN groups[groupName] : k = key \/ MatchesKey(FindStringSubmatch(k), key)
isKeyExists(groups, groupName, key, isMap) ==
    IF groupName \notin DOMAIN groups THEN FALSE
    ELSE IF ~isMap THEN key \in DOMAIN groups[groupName]
    ELSE \E k \in DOMAIN groups[groupName] : k = key \/ MatchesKey(FindStringSubmatch(k), key)

\* Decoder.getMapValue: the nil map when the group or the key is missing
getMapValue(groups, groupName, key) ==
    IF groupName \in DOMAIN groups /\ key \in DOMAIN groups[groupName]
    THEN groups[groupName][key] ELSE EmptyFn

\* Decoder.getValue
getValue(groups, groupName, key) ==
    LET bare(m) == IF <<>> \in DOMAIN m THEN m[<<>>] ELSE <<>>
    IN  bare(getMapValue(groups, groupName, key))

\* decodeAnyValue with the boolean parser tried before the numeric ones
decodeAnyValueBoolFirst(value) ==
    LET asComplex(c) ==
            IF c.err = NoErr THEN AnyOf(TComplex128, c.v) ELSE AnyOf(TString, value)
        asFloat(f) ==
            IF f.err = NoErr THEN AnyOf(TFloat64, f.v) ELSE asComplex(ParseComplex(value))
        asInt(i) ==
            IF i.err = NoErr THEN AnyOf(TInt("int64"), i.v) ELSE asFloat(ParseFloat(value))
        asBool(b) ==
            IF b.err = NoErr THEN AnyOf(TBool, b.v) ELSE asInt(ParseInt(value))
    IN  asBool(ParseBool(value))

\* Decoder.decodeAnyValue
decodeAnyValue(value) ==
    LET asComplex(c) ==
            IF c.err = NoErr THEN AnyOf(TComplex128, c.v) ELSE AnyOf(TString, value)
        asBool(b) ==
            IF b.err = NoErr THEN AnyOf(TBool, b.v) ELSE asComplex(ParseComplex(value))
        asFloat(f) ==
            IF f.err = NoErr THEN AnyOf(TFloat64, f.v) ELSE asBool(ParseBool(value))
        asInt(i) ==
            IF i.err = NoErr THEN AnyOf(TInt("int64"), i.v) ELSE asFloat(ParseFloat(value))
    IN  asInt(ParseInt(value))

\* reflect.PointerTo(rt).Implements(Unmarshaler): the type declares the hook
ImplementsUnmarshaler(rt) == "unmarshaler" \in DOMAIN rt

\* the value a parser returned, or its error
Parsed(p) == IF p.err # NoErr THEN [err |-> p.err, v |-> <<>>] ELSE p
\* reflect.ValueOf(v).Convert(rt) of a parsed 64-bit integer
Converted(p, rt, signed) ==
    IF p.err # NoErr THEN [err |-> p.err, v |-> <<>>]
    ELSE [err |-> NoErr, v |-> ConvertInt(p.v, KindBits(rt.k), signed)]
\* reflect.New(rt.Elem()) set to the decoded element
Pointed(r) == IF r.err # NoErr THEN r ELSE [err |-> NoErr, v |-> PtrTo(r.v)]

\* Decoder.decodeValue, for the field with tag `tag` whose entries in the
\* document are `entries` (Decoder.getMapValue): [err, v]
RECURSIVE decodeValue(_, _, _, _)
RECURSIVE decodeSlice(_, _, _, _, _, _)
decodeSlice(rt, elems, tag, entries, i, acc) ==
    LET next(r) == IF r.err # NoErr THEN [err |-> r.err, v |-> <<>>]
                   ELSE decodeSlice(rt, elems, tag, entries, i + 1, Append(acc, r.v))
    IN  IF i > Len(elems) THEN [err |-> NoErr, v |-> SliceOf(acc)]
        ELSE next(decodeValue(rt.elem, TrimSpace(elems[i]), tag, entries))

RECURSIVE decodeMap(_, _, _, _, _)
decodeMap(rt, tag, entries, keys, acc) ==
    LET next(r) == IF r.err # NoErr THEN [err |-> r.err, v |-> <<>>]
                   ELSE decodeMap(rt, tag, entries, Tail(keys), Put(acc, keys[1], r.v))
    IN  IF Len(keys) = 0 THEN [err |-> NoErr, v |-> MapOf(acc)]
        ELSE next(decodeValue(rt.elem, entries[keys[1]], tag, entries))

decodeValue(rt, value, tag, entries) ==
    IF ImplementsUnmarshaler(rt)
    THEN IF rt.unmarshaler = "fails"
         THEN [err |-> [type |-> "hook error"], v |-> <<>>]
         ELSE [err |-> NoErr, v |-> <<value>>]
    ELSE IF rt.k = "interface" THEN [err |-> NoErr, v |-> decodeAnyValue(value)]
    ELSE IF rt.k = "string" THEN [err |-> NoErr, v |-> value]
    ELSE IF rt.k \in SignedKinds THEN Converted(ParseInt(value), rt, TRUE)
    ELSE IF rt.k \in UnsignedKinds THEN Converted(ParseUint(value), rt, FALSE)
    ELSE IF rt.k \in FloatKinds THEN Parsed(ParseFloat(value))
    ELSE IF rt.k \in ComplexKinds THEN Parsed(ParseComplex(value))
    ELSE IF rt.k = "bool" THEN Parsed(ParseBool(value))
    ELSE IF rt.k = "slice"
    THEN decodeSlice(rt, split(value, CmpOr(getSeperator(tag), <<";">>)), tag, entries, 1, <<>>)
    ELSE IF rt.k = "map"
    THEN IF rt.key.k # "string" THEN [err |-> ErrInvalidMapKeyType, v |-> <<>>]
         ELSE decodeMap(rt, tag, entries, SortStrings(DOMAIN entries), EmptyFn)
    ELSE IF rt.k = "ptr" THEN Pointed(decodeValue(rt.elem, value, tag, entries))
    ELSE [err |-> ErrUnsupportedValueTypeZero, v |-> <<>>]

\* fillField, but the error of decodeValue is returned as it is
fillFieldBare(groups, groupName, f, old) ==
    LET set(key, r) ==
            IF r.err # NoErr
            THEN [err |-> r.err, v |-> old]
            ELSE [err |-> NoErr, v |-> r.v]
        bound(key) ==
            IF ~isKeyExists(groups, groupName, key, f.typ.k = "map")
            THEN [err |-> NoErr, v |-> old]
            ELSE set(key, decodeValue(f.typ, getValue(groups, groupName, key), f.tag,
                                      getMapValue(groups, groupName, key)))
    IN  bound(ResolvedName(f))

\* Decoder.fillField for the field declared as f, holding old: [err, v]
fillField(groups, groupName, f, old) ==
    LET set(key, r) ==
            IF r.err # NoErr
            THEN [err |-> ErrCanNotParsed(r.err, key, f.name, f.typ.str), v |-> old]
            ELSE [err |-> NoErr, v |-> r.v]
        bound(key) ==
            IF ~isKeyExists(groups, groupName, key, f.typ.k = "map")
            THEN [err |-> NoErr, v |-> old]
            ELSE set(key, decodeValue(f.typ, getValue(groups, groupName, key), f.tag,
                                      getMapValue(groups, groupName, key)))
    IN  bound(ResolvedName(f))

\* the skip test of Decoder.fillModel and Decoder.fillGroup
DecSkips(f) == ~IsExported(f) \/ isIgnored(f.tag)

\* Decoder.fillGroup on the struct value group: [err, v]
RECURSIVE fillGroupLoop(_, _, _, _, _)
fillGroupLoop(groups, groupName, t, i, v) ==
    LET next(r) == IF r.err # NoErr THEN [err |-> r.err, v |-> v]
                   ELSE fillGroupLoop(groups, groupName, t, i + 1, [v EXCEPT ![i] = r.v])
    IN  IF i > Len(t.fields) THEN [err |-> NoErr, v |-> v]
        ELSE IF DecSkips(t.fields[i]) THEN fillGroupLoop(groups, groupName, t, i + 1, v)
        ELSE next(fillField(groups, groupName, t.fields[i], v[i]))
fillGroup(groups, groupName, group) ==
    fillGroupLoop(groups, groupName, group.t, 1, group.v)

\* whether Decoder.fillModel accepts the type of a group
IsGroupType(t) == t.k = "struct" \/ (t.k = "ptr" /\ t.elem.k = "struct")

\* Decoder.fillModel on the struct value model:
\* [err, v, name], name the decoder's currentGroupName when it returns
RECURSIVE fillModelLoop(_, _, _, _, _)
fillModelLoop(groups, t, i, v, name) ==
    LET next(gn, r, v2) ==
            IF r.err # NoErr THEN [err |-> r.err, v |-> v2, name |-> gn]
            ELSE fillModelLoop(groups, t, i + 1, v2, gn)
        \* the group is filled as r; it is held by value or behind a new pointer
        filled(g, gn, r) ==
            next(gn, r, [v EXCEPT ![i] = IF g.typ.k = "ptr" THEN PtrTo(r.v) ELSE r.v])
        group(g, gn) ==
            IF gn \notin DOMAIN groups THEN fillModelLoop(groups, t, i + 1, v, gn)
            ELSE filled(g, gn,
                        fillGroup(groups, gn,
                                  IF g.typ.k = "ptr" THEN RV(g.typ.elem, Zero(g.typ.elem))
                                  ELSE RV(g.typ, v[i])))
        field(g) ==
            IF DecSkips(g) THEN fillModelLoop(groups, t, i + 1, v, name)
            ELSE IF ~IsGroupType(g.typ)
            THEN [err |-> ErrInvalidGroupType(g.name, g.typ.k), v |-> v, name |-> name]
            ELSE group(g, ResolvedName(g))
    IN  IF i > Len(t.fields) THEN [err |-> NoErr, v |-> v, name |-> name]
        ELSE field(t.fields[i])
fillModel(groups, model, name) == fillModelLoop(groups, model.t, 1, model.v, name)

\* Decoder.Decode(v) on the decoder dec: [err, dec, v], v the value of the
\* argument after the call
DecodeCall(rv, dec) ==
    LET filled(d, r) ==
            [err |-> r.err, dec |-> [d EXCEPT !.currentGroupName = r.name], v |-> PtrTo(r.v)]
        scanned(s) ==
            IF s.err # NoErr THEN [err |-> s.err, dec |-> s.dec, v |-> rv.v]
            ELSE filled(s.dec, fillModel(s.dec.groups, Elem(rv), s.dec.currentGroupName))
        validated(verr) ==
            IF verr # NoErr THEN [err |-> verr, dec |-> dec, v |-> rv.v]
            ELSE scanned(scanDocument(dec))
    IN  validated(DecValidateParameter(rv))

\* Unmarshal(data, v): a fresh Decoder on data; [err, v]
Unmarshal(data, rv) ==
    LET result(r) == [err |-> r.err, v |-> r.v]
    IN  result(DecodeCall(rv, NewDecoder(data)))

\* the characters escape treats specially, the letter of its space escape,
\* and one plain letter
EscapeAlphabet == {SP, TAB, LF, CR, BSL, "s", "a"}


(***************************************************************************)
(* The inputs of the programs that use the package: the types they declare *)
(* (after decoder_test.go and the encoder tests), the values they encode   *)
(* and the lines of the documents they decode.                             *)
(***************************************************************************)
\* type X struct { K typ `keyfile:"tag"` }
OneField(tag, typ) == TStruct("keyfile.G", <<Field(<<"K">>, Tag(tag), typ)>>)
\* type X struct { G gt `keyfile:"g"` }
OneGroup(gt) == TStruct("keyfile.T", <<Field(<<"G">>, Tag(<<"g">>), gt)>>)
\* type X struct { G struct { K typ `keyfile:"tag"` } `keyfile:"g"` }
Model1(tag, typ) == OneGroup(OneField(tag, typ))

TInt8 == TInt("int8")
TInt64 == TInt("int64")
TUint8 == TInt("uint8")
\* time.Time: a struct, which is no supported kind of value
TTime == TStruct("time.Time", <<>>)
\* a named type whose pointer has the method UnmarshalKeyFile
THook(outcome) ==
    [k |-> "struct", str |-> "keyfile.Custom", fields |-> <<>>, unmarshaler |-> outcome]
\* the custom type of the README: its pointer has UnmarshalKeyFile and
\* MarshalKeyFile
TCustom ==
    [k |-> "struct", str |-> "keyfile.CustomType", fields |-> <<>>,
     unmarshaler |-> "ok", marshaler |-> "ok"]

\* a group with two keys, and one whose two fields name the same key
TwoKeys ==
    TStruct("keyfile.G2", <<Field(<<"K">>, Tag(<<"k">>), TString), Field(<<"J">>, Tag(<<"j">>), TInt64)>>)
SameKey ==
    TStruct("keyfile.G3", <<Field(<<"K">>, Tag(<<"k">>), TString), Field(<<"N">>, Tag(<<"k">>), TInt8)>>)
Hidden ==
    TStruct("keyfile.G4", <<Field(<<"k">>, Tag(<<"k">>), TString), Field(<<"J">>, Tag(<<"-">>), TString),
                            Field(<<"P", "l", "a", "i", "n">>, NoTag, TString)>>)
TwoGroups ==
    TStruct("keyfile.T2", <<Field(<<"H">>, Tag(<<"h">>), TPtr(TwoKeys)),
                            Field(<<"G">>, Tag(<<"g">>), OneField(<<"k">>, TMap(TString, TString)))>>)

\* the types of the models the programs decode into
TargetTypes == <<
    Model1(<<"k">>, TString),
    Model1(<<"k">>, TInt8),
    Model1(<<"k">>, TInt64),
    Model1(<<"k">>, TUint8),
    Model1(<<"k">>, TBool),
    Model1(<<"k">>, TFloat64),
    Model1(<<"k">>, TComplex128),
    Model1(<<"k">>, TAny),
    Model1(<<"k">>, TSlice(TString)),
    Model1(<<"k">>, TSlice(TInt64)),
    Model1(<<"k", ";", "s", "e", "p", ":", ",">>, TSlice(TInt64)),
    Model1(<<"k", ",", "s", "e", "p", "=", BSL, ",">>, TSlice(TInt64)),
    Model1(<<"k">>, TSlice(TAny)),
    Model1(<<"k">>, TMap(TString, TString)),
    Model1(<<"k">>, TPtr(TString)),
    Model1(<<"k">>, TTime),
    Model1(<<"k">>, THook("ok")),
    Model1(<<"k">>, THook("fails")),
    Model1(<<"k">>, TMap(TInt64, TString)),
    Model1(<<"k">>, TSlice(TTime)),
    Model1(<<"k">>, TMap(TString, TTime)),
    OneGroup(TSlice(TString)),
    OneGroup(TString),
    OneGroup(TPtr(TString)),
    OneGroup(TwoKeys),
    OneGroup(SameKey),
    OneGroup(Hidden),
    TwoGroups >>

\* the arguments of Decode: a pointer to a zero model of each type, and the
\* arguments validateParameter refuses
New(t) == RV(TPtr(t), PtrTo(Zero(t)))
NewEach(types) == [i \in 1..Len(types) |-> New(types[i])]
Targets ==
    NewEach(TargetTypes)
    \o << RV(Model1(<<"k">>, TString), << <<<<>>>> >>),
          InvalidRV,
          RV(TPtr(Model1(<<"k">>, TString)), NilPtr),
          RV(TPtr(TString), NilPtr),
          RV(TPtr(TString), PtrTo(<<"o", "l", "d">>)),
          RV(TPtr(TPtr(Model1(<<"k">>, TString))), PtrTo(PtrTo(<< <<<<>>>> >>))),
          \* records that hold values already: a group behind a pointer, one held by value
          RV(TPtr(TwoGroups), PtrTo(<<PtrTo(<<<<"o", "l", "d">>, 9>>), <<NilMap>>>>)),
          RV(TPtr(OneGroup(TwoKeys)), PtrTo(<< <<<<"o", "l", "d">>, 9>> >>)),
          RV(TPtr(OneGroup(TPtr(SameKey))), PtrTo(<< PtrTo(<<<<"o", "l", "d">>, 9>>) >>)),
          RV(TPtr(OneGroup(SameKey)), PtrTo(<< <<<<"o", "l", "d">>, 9>> >>)) >>

\* the lines documents are made of: first those that give a document its
\* structure, then lines `k = raw` for the raw values of interest
Structural == <<
    <<"[", "g", "]">>, <<"[", "h", "]">>, <<"k", " ", "=", " ", "a">>, <<"k", "=", "b">>, <<"k", "[", "t", "r", "]", " ", "=", " ", "c">>, <<"k", "[", "d", "e", "]", "=", "d">>,
    <<"#", " ", "n", "o", "t", "e">>, <<>>, <<"j", "u", "n", "k">>, <<"[", " ", "]">>, <<" ", "=", " ", "v">>, <<"j", " ", "=", " ", "1">>, <<"[", "]">> >>
Raw == <<
    <<"4", "2">>, <<"4", "2", ".", "5">>, <<"t", "r", "u", "e">>, <<"1", "0", "+", "1", "1", "i">>, <<"v", "a", "l", "u", "e">>, <<"T", "R", "U", "E">>, <<"t", "R", "u", "E">>, <<"1">>, <<"t">>,
    <<"3", "0", "0">>, <<"2", "5", "6">>, <<"-", "1">>, <<"a", ";", "b", ";", "c">>, <<"1", ",", "2", ",", "3">>, <<"1", ";", "2", ";", "3">>, <<"a", BSL, ";", "b", ";", "c">>, <<"(", "1", "+", "2", "i", ")">>,
    <<"i", "n", "f">>, <<"1", "e", "2">>, <<" ", "x", " ", ";", "y">>, <<BSL, "s", "a", BSL, "n">>, <<"h", "e", "l", "l", "o">>,
    <<"T", "r", "u", "e">>, <<"f", "a", "l", "s", "e">>, <<"F", "A", "L", "S", "E">>, <<"F", "a", "l", "s", "e">>, <<"f", "A", "l", "S", "e">>, <<>> >>
Lines == Structural \o [i \in 1..Len(Raw) |-> <<"k", " ", "=", " ">> \o Raw[i]]

\* What each line is, read off its text: a group header with its name, an
\* entry with its key, sub-key and the value it stands for, a comment, a
\* blank line, or a line that is none of these.
Header(name) == [kind |-> "header", name |-> name, key |-> <<>>, sub |-> <<>>, val |-> <<>>]
Entry(key, sub, val) == [kind |-> "entry", name |-> <<>>, key |-> key, sub |-> sub, val |-> val]
Other(kind) == [kind |-> kind, name |-> <<>>, key |-> <<>>, sub |-> <<>>, val |-> <<>>]
Cooked(raw) ==
    IF raw = <<" ", "x", " ", ";", "y">> THEN <<"x", " ", ";", "y">> ELSE IF raw = <<BSL, "s", "a", BSL, "n">> THEN <<" ", "a", LF>> ELSE raw
Shape ==
    << Header(<<"g">>), Header(<<"h">>), Entry(<<"k">>, <<>>, <<"a">>), Entry(<<"k">>, <<>>, <<"b">>),
       Entry(<<"k">>, <<"t", "r">>, <<"c">>), Entry(<<"k">>, <<"d", "e">>, <<"d">>),
       Other("comment"), Other("blank"), Other("invalid"), Other("invalid"),
       Other("invalid"), Entry(<<"j">>, <<>>, <<"1">>), Other("invalid") >>
    \o [i \in 1..Len(Raw) |-> Entry(<<"k">>, <<>>, Cooked(Raw[i]))]

\* a document: the lines numbered by doc, each but the last ended by a line feed
Text(doc) == Join([i \in 1..Len(doc) |-> Lines[doc[i]]], <<LF>>)

MaxLines == 2
\* longer documents: the greet example of the README, a group that comes
\* twice, a key that is written twice, entries behind comments and blank lines
Examples ==
    { <<1, 3, 5, 6>>, <<1, 5, 6>>, <<1, 5, 6, 2, 5>>, <<1, 3, 4, 5, 5>>, <<1, 3, 1, 5>>,
      <<7, 8, 3>>, <<8, 7, 1, 3>>, <<7, 1, 12, 3>>, <<1, 3, 2, 12>>, <<1, 3, 9>>,
      <<2, 3, 12, 1, 5>>, <<1, 3, 4>>, <<1, 4, 3>>, <<1, 5, 6, 5>>,
      <<7, 1, 12, 11>>, <<8, 1, 9, 3>>, <<1, 7, 10, 3>> }
Docs ==
    UNION {[1..n -> 1..Len(Structural)] : n \in 0..MaxLines}
    \cup {<<1, i>> : i \in (Len(Structural) + 1)..Len(Lines)}
    \cup Examples

\* the records the programs encode
Rec1(tag, typ, val) == RV(Model1(tag, typ), << <<val>> >>)
Unsorted ==
    TStruct("keyfile.T3",
            <<Field(<<"Z", "e", "d">>, Tag(<<"z">>), TwoKeys),
              Field(<<"A", "l", "p", "h", "a">>, NoTag, OneField(<<"m">>, TMap(TString, TInt64)))>>)
Partial ==
    TStruct("keyfile.T4",
            <<Field(<<"A">>, Tag(<<"a">>), OneField(<<"k">>, TString)),
              Field(<<"B">>, Tag(<<"b">>), OneField(<<"k">>, TTime))>>)
\* two groups under one name
SameGroup ==
    TStruct("keyfile.T6",
            <<Field(<<"A">>, Tag(<<"g">>), OneField(<<"k">>, TString)),
              Field(<<"B">>, Tag(<<"g">>), OneField(<<"j">>, TString))>>)
Greet == [x \in {<<>>, <<"t", "r">>, <<"d", "e">>} |->
            IF x = <<>> THEN <<"h", "e", "l", "l", "o">> ELSE IF x = <<"t", "r">> THEN <<"m", "e", "r", "h", "a", "b", "a">> ELSE <<"h", "a", "l", "l", "o">>]
Records == <<
    Rec1(<<"k">>, TPtr(TString), NilPtr),
    Rec1(<<"k", ",", "o", "m", "i", "t", "e", "m", "p", "t", "y">>, TPtr(TString), NilPtr),
    Rec1(<<"k", ",", "o", "m", "i", "t", "e", "m", "p", "t", "y">>, TPtr(TString), PtrTo(<<>>)),
    Rec1(<<"k">>, TPtr(TString), PtrTo(<<"v">>)),
    Rec1(<<"k">>, TString, <<"h", "e", "l", "l", "o">>),
    Rec1(<<"k">>, TString, <<" ", "x", LF>>),
    Rec1(<<"k">>, TInt8, 0 - 5),
    Rec1(<<"k">>, TInt64, 42),
    Rec1(<<"k">>, TUint8, 255),
    Rec1(<<"k">>, TBool, TRUE),
    Rec1(<<"k">>, TFloat64, MkFloat(425, 0 - 1)),
    Rec1(<<"k">>, TComplex128, [re |-> FloatOfInt(10), im |-> FloatOfInt(11)]),
    Rec1(<<"k">>, TAny, AnyOf(TInt64, 42)),
    Rec1(<<"k">>, TAny, AnyOf(TString, <<"4", "2">>)),
    Rec1(<<"k">>, TAny, AnyOf(TInt8, 5)),
    Rec1(<<"k">>, TAny, AnyOf(TBool, FALSE)),
    Rec1(<<"k">>, TAny, NilAny),
    Rec1(<<"k">>, TSlice(TString), SliceOf(<<<<"a">>, <<"b">>, <<"c">>>>)),
    Rec1(<<"k">>, TSlice(TString), SliceOf(<<<<"a", ";", "b">>, <<"c">>>>)),
    Rec1(<<"k", ",", "s", "e", "p", "=", BSL, ",">>, TSlice(TInt64), SliceOf(<<1, 2, 3>>)),
    Rec1(<<"k">>, TSlice(TString), NilSlice),
    Rec1(<<"k">>, TMap(TString, TString), MapOf(Greet)),
    Rec1(<<"k">>, TMap(TString, TString), NilMap),
    Rec1(<<"k">>, TMap(TInt64, TString), MapOf([x \in {1, 2} |-> IF x = 1 THEN <<"a">> ELSE <<"b">>])),
    Rec1(<<"k">>, TTime, <<>>),
    Rec1(<<"k">>, TSlice(TTime), SliceOf(<< <<>> >>)),
    Rec1(<<"k">>, TMap(TString, TTime), MapOf([x \in {<<"a">>} |-> <<>>])),
    RV(TPtr(Model1(<<"k">>, TInt64)), PtrTo(<< <<7>> >>)),
    RV(TPtr(TPtr(Model1(<<"k">>, TInt64))), PtrTo(PtrTo(<< <<8>> >>))),
    InvalidRV,
    RV(TPtr(Model1(<<"k">>, TInt64)), NilPtr),
    RV(TString, <<"x">>),
    RV(TPtr(TString), PtrTo(<<"x">>)),
    RV(OneGroup(TSlice(TString)), <<SliceOf(<<<<"a">>>>)>>),
    RV(OneGroup(TString), <<<<"a">>>>),
    RV(OneGroup(TPtr(TString)), <<NilPtr>>),
    RV(OneGroup(TPtr(TString)), <<PtrTo(<<"a">>)>>),
    RV(TwoGroups, <<PtrTo(<<<<"x">>, 7>>), <<MapOf(Greet)>>>>),
    RV(TwoGroups, <<NilPtr, <<NilMap>>>>),
    RV(Unsorted, << <<<<"x">>, 7>>, <<MapOf([x \in {<<"b">>, <<"a">>} |-> IF x = <<"a">> THEN 2 ELSE 1])>> >>),
    RV(OneGroup(SameKey), << <<<<"x">>, 5>> >>),
    RV(OneGroup(Hidden), << <<<<"u">>, <<"i">>, <<"p">>>> >>),
    RV(TStruct("keyfile.T5", <<Field(<<"G">>, Tag(<<"g", ",", "o", "m", "i", "t", "e", "m", "p", "t", "y">>), OneField(<<"k">>, TString))>>),
       << <<<<>>>> >>),
    RV(Partial, << <<<<"x">>>>, << <<>> >> >>),
    Rec1(<<"k">>, TCustom, <<<<"v">>>>),
    RV(SameGroup, << <<<<"x">>>>, <<<<"y">>>> >>) >>

(***************************************************************************)
(* A program builds one object of the package and drives it: a Decoder on  *)
(* a document and the variable v it decodes into, an Encoder on a buffer,  *)
(* or a Marshal call whose text it hands to Unmarshal.                     *)
(***************************************************************************)
MaxDecodeCalls == 2
MaxEncodeCalls == 2

VARIABLES obj, dec, v, dcall, enc, ecall, rt, call

vars == <<obj, dec, v, dcall, enc, ecall, rt, call>>

NoDecodeCall ==
    [n |-> 0, doc |-> <<>>, t |-> 0, err |-> NoErr,
     pre |-> [dec |-> NewDecoder(<<>>), v |-> InvalidRV]]
NoEncodeCall ==
    [n |-> 0, arg |-> 0, ord |-> TRUE, err |-> NoErr, out |-> <<>>,
     pre |-> [groups |-> EmptyFn, w |-> <<>>]]
NoRoundTrip ==
    [step |-> "none", arg |-> 0, ord |-> TRUE, err |-> NoErr, data |-> <<>>,
     uerr |-> NoErr, back |-> <<>>]

\* no call of a helper: call is [op, step, s, xs, tag, notag, out, back, parts]
NoCall ==
    [op |-> "none", step |-> "none", s |-> <<>>, xs |-> <<>>, tag |-> <<>>,
     notag |-> FALSE, out |-> <<>>, back |-> <<>>, parts |-> <<>>]

\* no object of the package exists yet
Idle ==
    /\ obj = "none"
    /\ dec = NewDecoder(<<>>)
    /\ v = InvalidRV
    /\ dcall = NoDecodeCall
    /\ enc = [groups |-> EmptyFn, w |-> <<>>]
    /\ ecall = NoEncodeCall
    /\ rt = NoRoundTrip

Init == Idle /\ call = NoCall

\* dec := NewDecoder(strings.NewReader(text)), next to the declaration of v
OpenDecoder ==
    /\ obj = "none"
    /\ obj' = "decoder"
    /\ \E doc \in Docs : \E t \in 1..Len(Targets) :
          /\ dec' = NewDecoder(Text(doc))
          /\ v' = Targets[t]
          /\ dcall' = [NoDecodeCall EXCEPT !.doc = doc, !.t = t]
    /\ UNCHANGED <<enc, ecall, rt, call>>

\* err := dec.Decode(v)
Decode ==
    /\ obj = "decoder"
    /\ dcall.n < MaxDecodeCalls
    /\ LET return(r) ==
               /\ dec' = r.dec
               /\ v' = [v EXCEPT !.v = r.v]
               /\ dcall' = [dcall EXCEPT !.n = @ + 1, !.err = r.err,
                                         !.pre = [dec |-> dec, v |-> v]]
       IN  return(DecodeCall(v, dec))
    /\ UNCHANGED <<obj, enc, ecall, rt, call>>

\* enc := NewEncoder(&buf)
OpenEncoder ==
    /\ obj = "none"
    /\ obj' = "encoder"
    /\ enc' = [groups |-> EmptyFn, w |-> <<>>]
    /\ UNCHANGED <<dec, v, dcall, ecall, rt, call>>

\* err := enc.Encode(Records[i]), the maps ranged over in the order ord
Encode ==
    /\ obj = "encoder"
    /\ ecall.n < MaxEncodeCalls
    /\ \E i \in 1..Len(Records) : \E ord \in BOOLEAN :
          LET return(r) ==
                  /\ enc' = [groups |-> r.groups, w |-> enc.w \o r.out]
                  /\ ecall' = [n |-> ecall.n + 1, arg |-> i, ord |-> ord, err |-> r.err,
                               out |-> r.out, pre |-> enc]
          IN  return(EncodeCall(Records[i], ord, enc.groups))
    /\ UNCHANGED <<obj, dec, v, dcall, rt, call>>

\* the struct a chain of pointers leads to
RECURSIVE Indirect(_)
Indirect(rv) == IF rv.t.k = "ptr" /\ ~rv.v.nil THEN Indirect(Elem(rv)) ELSE rv

\* data, err := Marshal(Records[i])
DoMarshal ==
    /\ obj = "none"
    /\ obj' = "marshal"
    /\ \E i \in 1..Len(Records) : \E ord \in BOOLEAN :
          LET return(r) ==
                  rt' = [NoRoundTrip EXCEPT !.step = "marshalled", !.arg = i, !.ord = ord,
                                            !.err = r.err, !.data = r.out]
          IN  return(Marshal(Records[i], ord))
    /\ UNCHANGED <<dec, v, dcall, enc, ecall, call>>

\* var back T; err = Unmarshal(data, &back), T the type of the record
DoUnmarshal ==
    /\ obj = "marshal"
    /\ rt.step = "marshalled"
    /\ rt.err = NoErr
    /\ LET return(r) ==
               rt' = [rt EXCEPT !.step = "unmarshalled", !.uerr = r.err, !.back = r.v.elem]
       IN  return(Unmarshal(rt.data, New(Indirect(Records[rt.arg]).t)))
    /\ UNCHANGED <<obj, dec, v, dcall, enc, ecall, call>>

Next ==
    \/ OpenDecoder
    \/ Decode
    \/ OpenEncoder
    \/ Encode
    \/ DoMarshal
    \/ DoUnmarshal

Spec == Init /\ [][Next]_vars

(***************************************************************************)
(* The helpers on their own: escape and unescape on a text, and the join   *)
(* of Encoder.encodeValue with the split of Decoder.decodeValue on a list  *)
(* of strings, for the separator of a tag.                                 *)
(***************************************************************************)
MaxText == 3
MaxList == 2
MaxElem == 2
TextsUpTo(alphabet, n) == UNION {[1..k -> alphabet] : k \in 0..n}
\* space, tab, line feed, carriage return and printable characters
EscapeTexts == TextsUpTo(EscapeAlphabet, MaxText)
ListElems == TextsUpTo({"a", ";", ","}, MaxElem)
Lists == UNION {[1..k -> ListElems] : k \in 0..MaxList}
\* the tags `k` (separator ";") and `k,sep=\,` (separator ",")
ListTags == {<<"k">>, <<"k", ",", "s", "e", "p", "=", BSL, ",">>}

MaxSplit == 4
\* the values split is called with: plain characters, separators, backslashes
SplitTexts == TextsUpTo({"a", ";", ":", BSL}, MaxSplit)
\* the tags `k` (separator ";") and `k,sep=::` (separator "::")
SplitTags == {<<"k">>, <<"k", ",", "s", "e", "p", "=", ":", ":">>}

MaxTokens == 2
\* the parts a tag is made of: names, the markers, directives, an empty part
TagTokens == {<<"k">>, <<" ", "j", " ">>, <<"-">>, <<"o", "m", "i", "t", "e", "m", "p", "t", "y">>, <<"s", "e", "p", "=", ":">>, <<"a", "=", "b">>, <<>>}
TokenLists == UNION {[1..n -> TagTokens] : n \in 0..MaxTokens}
\* type T struct { G struct { K string `keyfile:"tag"` } `keyfile:"tag"` }
Tagged(tag) ==
    TStruct("keyfile.T", <<Field(<<"G">>, tag, TStruct("keyfile.G", <<Field(<<"K">>, tag, TString)>>))>>)

HelperInit ==
    /\ Idle
    /\ \/ \E s \in EscapeTexts :
             call = [NoCall EXCEPT !.op = "escape", !.step = "input", !.s = s]
       \/ \E xs \in TokenLists :
             call = [NoCall EXCEPT !.op = "resolve", !.step = "input", !.xs = xs,
                                   !.tag = Join(xs, <<",">>)]
       \/ call = [NoCall EXCEPT !.op = "resolve", !.step = "input", !.notag = TRUE]
       \/ \E s \in SplitTexts : \E tag \in SplitTags :
             call = [NoCall EXCEPT !.op = "split", !.step = "input", !.s = s, !.tag = tag]
       \/ \E xs \in Lists : \E tag \in ListTags :
             call = [NoCall EXCEPT !.op = "join", !.step = "input", !.xs = xs, !.tag = tag]

\* out := escape(s)
Escape ==
    /\ call.op = "escape" /\ call.step = "input"
    /\ call' = [call EXCEPT !.step = "escaped", !.out = escape(call.s)]
    /\ UNCHANGED <<obj, dec, v, dcall, enc, ecall, rt>>

\* back := unescape(out)
Unescape ==
    /\ call.op = "escape" /\ call.step = "escaped"
    /\ call' = [call EXCEPT !.step = "done", !.back = unescape(call.out)]
    /\ UNCHANGED <<obj, dec, v, dcall, enc, ecall, rt>>

\* out := the value Encoder.encodeValue gives for the []string xs
JoinList ==
    /\ call.op = "join" /\ call.step = "input"
    /\ call' = [call EXCEPT !.step = "joined",
                            !.out = encodeValue(RV(TSlice(TString), SliceOf(call.xs)),
                                                Tag(call.tag)).s]
    /\ UNCHANGED <<obj, dec, v, dcall, enc, ecall, rt>>

\* parts := split(out, sep), as Decoder.decodeValue splits a list
SplitList ==
    /\ call.op = "join" /\ call.step = "joined"
    /\ call' = [call EXCEPT !.step = "done",
                            !.parts = split(call.out,
                                            CmpOr(getSeperator(Tag(call.tag)), <<";">>))]
    /\ UNCHANGED <<obj, dec, v, dcall, enc, ecall, rt>>

\* parts := split(s, sep), sep the separator of the tag
Split ==
    /\ call.op = "split" /\ call.step = "input"
    /\ call' = [call EXCEPT !.step = "done",
                            !.parts = split(call.s, getSeperator(Tag(call.tag)))]
    /\ UNCHANGED <<obj, dec, v, dcall, enc, ecall, rt>>

\* out, err := Marshal(T{G{K: "v"}}), then Unmarshal(out, &t) into a new T,
\* the group and the field of T declared with the tag: back := t.G.K
Resolve ==
    /\ call.op = "resolve" /\ call.step = "input"
    /\ LET t == Tagged(IF call.notag THEN NoTag ELSE Tag(call.tag))
           decoded(r) == r.v.elem[1][1]
           encoded(r) ==
               call' = [call EXCEPT !.step = "done", !.out = r.out,
                                    !.back = decoded(Unmarshal(r.out, New(t)))]
       IN  encoded(Marshal(RV(t, << <<<<"v">>>> >>), TRUE))
    /\ UNCHANGED <<obj, dec, v, dcall, enc, ecall, rt>>

HelperNext == Escape \/ Unescape \/ JoinList \/ SplitList \/ Split \/ Resolve

HelperSpec == HelperInit /\ [][HelperNext]_vars

(***************************************************************************)
(* Properties                                                              *)
(***************************************************************************)
\* The field values the round trip is stated for: strings without a
\* backslash, numbers, booleans, any-typed values holding one of these,
\* lists, string-keyed maps, nil and non-nil pointers.
Scalars == SignedKinds \cup UnsignedKinds \cup FloatKinds \cup ComplexKinds \cup {"bool"}
RECURSIVE InMatrix(_, _)
InMatrix(t, x) ==
    IF "unmarshaler" \in DOMAIN t THEN FALSE
    ELSE IF t.k = "string" THEN \A i \in 1..Len(x) : x[i] # BSL
    ELSE IF t.k \in Scalars THEN TRUE
    ELSE IF t.k = "interface"
    THEN x.nil \/ (x.dyn.k \in Scalars \cup {"string"} /\ InMatrix(x.dyn, x.v))
    ELSE IF t.k = "ptr" THEN x.nil \/ InMatrix(t.elem, x.elem)
    ELSE IF t.k = "slice" THEN \A i \in 1..Len(x.elems) : InMatrix(t.elem, x.elems[i])
    ELSE IF t.k = "map"
    THEN t.key.k = "string" /\ \A key \in DOMAIN x.m : InMatrix(t.elem, x.m[key])
    ELSE FALSE

\* every field of the struct type t is encoded and decoded under a name of its own
AllBound(t) ==
    /\ \A i \in 1..Len(t.fields) : IsExported(t.fields[i]) /\ ~isIgnored(t.fields[i].tag)
    /\ \A i, j \in 1..Len(t.fields) :
          i # j => ResolvedName(t.fields[i]) # ResolvedName(t.fields[j])

\* a group of a record in the matrix: a struct, or a pointer to one, of such fields
GroupInMatrix(t, x) ==
    IF t.k = "ptr" THEN t.elem.k = "struct" /\ AllBound(t.elem)
                        /\ (x.nil \/ \A i \in 1..Len(t.elem.fields) :
                                        InMatrix(t.elem.fields[i].typ, x.elem[i]))
    ELSE t.k = "struct" /\ AllBound(t)
         /\ \A i \in 1..Len(t.fields) : InMatrix(t.fields[i].typ, x[i])

RecordInMatrix(rv) ==
    /\ rv.t.k = "struct"
    /\ AllBound(rv.t)
    /\ \A i \in 1..Len(rv.t.fields) : GroupInMatrix(rv.t.fields[i].typ, rv.v[i])

\* equality of two values of type t, field by field; a nil list or map
\* counts as equal to an empty one
RECURSIVE SameValue(_, _, _)
SameValue(t, a, b) ==
    IF t.k = "interface"
    THEN /\ a.nil = b.nil
         /\ a.nil \/ (a.dyn = b.dyn /\ SameValue(a.dyn, a.v, b.v))
    ELSE IF t.k = "ptr"
    THEN a.nil = b.nil /\ (a.nil \/ SameValue(t.elem, a.elem, b.elem))
    ELSE IF t.k = "slice"
    THEN /\ Len(a.elems) = Len(b.elems)
         /\ \A i \in 1..Len(a.elems) : SameValue(t.elem, a.elems[i], b.elems[i])
    ELSE IF t.k = "map"
    THEN /\ DOMAIN a.m = DOMAIN b.m
         /\ \A key \in DOMAIN a.m : SameValue(t.elem, a.m[key], b.m[key])
    ELSE IF t.k = "struct" /\ "unmarshaler" \notin DOMAIN t
    THEN \A i \in 1..Len(t.fields) : SameValue(t.fields[i].typ, a[i], b[i])
    ELSE a = b

\* the record handed to Marshal in the round trip
Original == Indirect(Records[rt.arg])

\* C1: for a record whose fields hold values of the supported kinds,
\* Unmarshal(Marshal(record)) into a fresh record of the same type succeeds
\* and yields a record equal to the original field by field.
RoundTrip ==
    (rt.step = "unmarshalled" /\ RecordInMatrix(Original))
        => rt.uerr = NoErr /\ SameValue(Original.t, Original.v, rt.back)

(***************************************************************************)
(* The entries of a document that binding sees, read off the shape of its  *)
(* lines: entry i belongs to the group of the nearest header above it, and *)
(* counts when no later header opens that group again.                     *)
(***************************************************************************)
GroupOf(doc, i) ==
    LET above == {j \in 1..(i - 1) : Shape[doc[j]].kind = "header"}
    IN  IF above = {} THEN <<>> ELSE Shape[doc[Max(above)]].name
Visible(doc, group, key) ==
    {i \in 1..Len(doc) :
        /\ Shape[doc[i]].kind = "entry"
        /\ Shape[doc[i]].key = key
        /\ GroupOf(doc, i) = group
        /\ \A j \in (i + 1)..Len(doc) :
              ~(Shape[doc[j]].kind = "header" /\ Shape[doc[j]].name = group)}
SubKeys(doc, group, key) == {Shape[doc[i]].sub : i \in Visible(doc, group, key)}
\* the value of the last visible line for (group, key, sub)
LastValue(doc, group, key, sub) ==
    Shape[doc[Max({i \in Visible(doc, group, key) : Shape[doc[i]].sub = sub})]].val

\* a Decode of the decoder has returned without an error
Decoded == obj = "decoder" /\ dcall.n >= 1 /\ dcall.err = NoErr
\* every line of the document is a header, an entry, a comment or blank, and
\* no entry stands above the first header
WellFormed(doc) ==
    \A i \in 1..Len(doc) :
        /\ Shape[doc[i]].kind \in {"header", "entry", "comment", "blank"}
        /\ Shape[doc[i]].kind = "entry" => GroupOf(doc, i) # <<>>

\* the field K of the target, for the targets made by Model1
FieldK == v.v.elem[1][1]
\* the document `[g]` / `k = raw`
ValueDoc(raw) == <<1, Len(Structural) + (CHOOSE i \in 1..Len(Raw) : Raw[i] = raw)>>

\* the map[string]string field bound to key k of group g, for the targets that have one
HasMapField == dcall.t \in {14, 28}
MapField == IF dcall.t = 14 THEN FieldK ELSE v.v.elem[2][1]

\* C2: from a well-formed document a string-keyed map field decodes to
\* exactly one entry per sub-key that occurs for its key in its group (the
\* lines that follow the last header of the group): `key = v` gives the entry
\* "" and `key[s] = v` the
\* entry s, each with the value of its last line, and there is no other entry;
\* with no such line the field stays nil.
MapEntries ==
    (Decoded /\ HasMapField /\ WellFormed(dcall.doc)) =>
        IF SubKeys(dcall.doc, <<"g">>, <<"k">>) = {} THEN MapField.nil
        ELSE /\ ~MapField.nil
             /\ DOMAIN MapField.m = SubKeys(dcall.doc, <<"g">>, <<"k">>)
             /\ \A sub \in DOMAIN MapField.m :
                   MapField.m[sub] = LastValue(dcall.doc, <<"g">>, <<"k">>, sub)

\* the greet example: a bare line and two sub-key lines give three entries
MapEntriesWitness ==
    /\ Decoded /\ dcall.t = 14 /\ dcall.doc = <<1, 3, 5, 6>>
    /\ DOMAIN MapField.m = {<<>>, <<"t", "r">>, <<"d", "e">>}
    /\ MapField.m[<<>>] = <<"a">> /\ MapField.m[<<"t", "r">>] = <<"c">>

\* C3: a list field is split on the separator of its tag, in order: with no
\* directive `k = a;b;c` gives [a, b, c] and `k = 1;2;3` the numbers 1, 2, 3,
\* and with the tag form of the tests and the README (`k;sep:,`) the field is
\* bound to key k and `k = 1,2,3` gives the numbers 1, 2, 3.
ListSplit ==
    /\ (obj = "decoder" /\ dcall.n >= 1 /\ dcall.t = 9 /\ dcall.doc = ValueDoc(<<"a", ";", "b", ";", "c">>))
          => dcall.err = NoErr /\ FieldK = SliceOf(<<<<"a">>, <<"b">>, <<"c">>>>)
    /\ (obj = "decoder" /\ dcall.n >= 1 /\ dcall.t = 10 /\ dcall.doc = ValueDoc(<<"1", ";", "2", ";", "3">>))
          => dcall.err = NoErr /\ FieldK = SliceOf(<<1, 2, 3>>)
    /\ (obj = "decoder" /\ dcall.n >= 1 /\ dcall.t = 11 /\ dcall.doc = ValueDoc(<<"1", ",", "2", ",", "3">>))
          => dcall.err = NoErr /\ FieldK = SliceOf(<<1, 2, 3>>)

\* the any-typed value the parsers give for raw, tried in the order
\* signed integer, float, boolean, complex, string
FirstAccepted(raw) ==
    IF ParseInt(raw).err = NoErr THEN AnyOf(TInt64, ParseInt(raw).v)
    ELSE IF ParseFloat(raw).err = NoErr THEN AnyOf(TFloat64, ParseFloat(raw).v)
    ELSE IF ParseBool(raw).err = NoErr THEN AnyOf(TBool, ParseBool(raw).v)
    ELSE IF ParseComplex(raw).err = NoErr THEN AnyOf(TComplex128, ParseComplex(raw).v)
    ELSE AnyOf(TString, raw)

\* two values of an any-typed field hold the same type and the same value
SameAny(a, b) == a.nil = b.nil /\ (~a.nil => (a.dyn.k = b.dyn.k /\ a.v = b.v))

\* the value of the single entry of key k in the document `[g]` / `k = raw`
StoredValue == Shape[dcall.doc[2]].val
IsValueDoc == Len(dcall.doc) = 2 /\ dcall.doc[1] = 1 /\ dcall.doc[2] > Len(Structural)

\* C4: an any-typed field gets the result of the first parser that accepts
\* the raw text, in the order signed integer, float, boolean, complex, and
\* else the text itself: "42" is the integer 42, "42.5" the float 42.5,
\* "true" the boolean, "10+11i" a complex value and "value" a string.
AnyPrecedence ==
    (obj = "decoder" /\ dcall.n >= 1 /\ dcall.t = 8 /\ IsValueDoc) =>
        /\ dcall.err = NoErr
        /\ SameAny(FieldK, FirstAccepted(StoredValue))
        /\ dcall.doc = ValueDoc(<<"4", "2">>) => SameAny(FieldK, AnyOf(TInt64, 42))
        /\ dcall.doc = ValueDoc(<<"4", "2", ".", "5">>) => SameAny(FieldK, AnyOf(TFloat64, [sp |-> "num", m |-> 425, d |-> 1]))
        /\ dcall.doc = ValueDoc(<<"t", "r", "u", "e">>) => SameAny(FieldK, AnyOf(TBool, TRUE))
        /\ dcall.doc = ValueDoc(<<"1", "0", "+", "1", "1", "i">>)
              => SameAny(FieldK, AnyOf(TComplex128, [re |-> FloatOfInt(10), im |-> FloatOfInt(11)]))
        /\ dcall.doc = ValueDoc(<<"v", "a", "l", "u", "e">>) => SameAny(FieldK, AnyOf(TString, <<"v", "a", "l", "u", "e">>))

\* "1" is accepted by the integer parser and by the boolean parser: it is an integer
AnyPrecedenceWitness ==
    /\ obj = "decoder" /\ dcall.n = 1 /\ dcall.t = 8 /\ dcall.doc = ValueDoc(<<"1">>)
    /\ SameAny(FieldK, AnyOf(TInt64, 1))

(***************************************************************************)
(* The text an Encode call wrote, read line by line.                       *)
(***************************************************************************)
RECURSIVE LinesOf(_)
LinesOf(text) ==
    IF text = <<>> THEN <<>>
    ELSE IF Index(text, <<LF>>) = 0 THEN <<text>>
    ELSE <<Take(text, Index(text, <<LF>>) - 1)>> \o LinesOf(Drop(text, Index(text, <<LF>>)))

IsHeaderLine(l) == Len(l) >= 2 /\ l[1] = "[" /\ l[Len(l)] = "]"
HeaderName(l) == Slice(l, 2, Len(l) - 1)
IsEntryLine(l) == ~IsHeaderLine(l) /\ Contains(l, <<"=">>)
\* what stands before the first "=": key, or key[sub]
KeyPart(l) == Take(l, Index(l, <<"=">>) - 1)
HasSub(l) == Contains(KeyPart(l), <<"[">>) /\ KeyPart(l)[Len(KeyPart(l))] = "]"
LineKey(l) == IF HasSub(l) THEN Take(KeyPart(l), Index(KeyPart(l), <<"[">>) - 1) ELSE KeyPart(l)
LineSub(l) ==
    IF HasSub(l) THEN Slice(KeyPart(l), Index(KeyPart(l), <<"[">>) + 1, Len(KeyPart(l)) - 1)
    ELSE <<>>
\* the entry lines that stand under the header of group gn
Section(L, gn) ==
    {L[i] : i \in {i \in 1..Len(L) :
                      /\ IsEntryLine(L[i])
                      /\ \E h \in 1..i : /\ IsHeaderLine(L[h]) /\ HeaderName(L[h]) = gn
                                         /\ \A j \in (h + 1)..i : ~IsHeaderLine(L[j])}}

Encoded == obj = "encoder" /\ ecall.n >= 1 /\ ecall.err = NoErr
Argument == Indirect(Records[ecall.arg])

\* the group field g with value x is a struct, or a non-nil pointer to one,
\* that Encode does not leave out, under a name no other group has
EncodedGroup(t, g, x) ==
    /\ IsExported(g) /\ ~isIgnored(g.tag)
    /\ ~(isOmitempty(g.tag) /\ IsZero(RV(g.typ, x)))
    /\ Indirect(RV(g.typ, x)).t.k = "struct"
    /\ \A i \in 1..Len(t.fields) :
          t.fields[i] # g => ResolvedName(t.fields[i]) # ResolvedName(g)

\* C5: a nil pointer field is written as the line `key=` when its tag has no
\* omitempty directive and as no line at all when it has one; the header of
\* its group is written in both cases.
NilPointerLine ==
    Encoded =>
        \A gi \in 1..Len(Argument.t.fields) :
            LET g == Argument.t.fields[gi]
                group == Indirect(RV(g.typ, Argument.v[gi]))
                L == LinesOf(ecall.out)
            IN  EncodedGroup(Argument.t, g, Argument.v[gi]) =>
                    \A fi \in 1..Len(group.t.fields) :
                        LET f == group.t.fields[fi]
                            key == ResolvedName(f)
                            keyed == {l \in Section(L, ResolvedName(g)) : LineKey(l) = key}
                        IN  ( /\ f.typ.k = "ptr" /\ group.v[fi].nil
                              /\ IsExported(f) /\ ~isIgnored(f.tag)
                              /\ \A fj \in 1..Len(group.t.fields) :
                                    fj # fi => ResolvedName(group.t.fields[fj]) # key )
                            => /\ \E i \in 1..Len(L) : L[i] = <<"[">> \o ResolvedName(g) \o <<"]">>
                               /\ keyed = IF isOmitempty(f.tag) THEN {} ELSE {key \o <<"=">>}

NilPointerLineWitness ==
    /\ Encoded /\ ecall.arg = 1
    /\ Records[1].t.fields[1].typ.fields[1].typ.k = "ptr"
    /\ Records[1].v[1][1].nil
    /\ ecall.out = <<"[", "g", "]", LF, "k", "=", LF>>

\* the same record with the fields of every struct declared in the opposite order
Rev(seq) == [i \in 1..Len(seq) |-> seq[Len(seq) + 1 - i]]
RECURSIVE Mirror(_)
Mirror(rv) ==
    IF rv.t.k = "ptr"
    THEN IF rv.v.nil THEN rv
         ELSE RV(TPtr(Mirror(Elem(rv)).t), PtrTo(Mirror(Elem(rv)).v))
    ELSE IF rv.t.k = "struct" /\ "unmarshaler" \notin DOMAIN rv.t
    THEN LET sub == [i \in 1..Len(rv.t.fields) |-> Mirror(RV(rv.t.fields[i].typ, rv.v[i]))]
         IN  RV([rv.t EXCEPT !.fields = Rev([i \in 1..Len(sub) |->
                                                [rv.t.fields[i] EXCEPT !.typ = sub[i].t]])],
                Rev([i \in 1..Len(sub) |-> sub[i].v]))
    ELSE rv

\* no two groups of the record, and no two keys of one group, share a name
DistinctNames(rv) ==
    /\ \A i, j \in 1..Len(rv.t.fields) :
          i # j => ResolvedName(rv.t.fields[i]) # ResolvedName(rv.t.fields[j])
    /\ \A i \in 1..Len(rv.t.fields) :
          LET group == Indirect(RV(rv.t.fields[i].typ, rv.v[i]))
          IN  group.t.k = "struct" =>
                 \A a, b \in 1..Len(group.t.fields) :
                     a # b => ResolvedName(group.t.fields[a]) # ResolvedName(group.t.fields[b])

\* the lines of a text without the values: what stands on each line, in order
Labels(text) ==
    [i \in 1..Len(LinesOf(text)) |->
        IF IsEntryLine(LinesOf(text)[i]) THEN KeyPart(LinesOf(text)[i]) ELSE LinesOf(text)[i]]

\* every map field of the groups of the record has string keys
StringKeyed(rv) ==
    \A i \in 1..Len(rv.t.fields) :
        LET group == Indirect(RV(rv.t.fields[i].typ, rv.v[i]))
        IN  group.t.k = "struct" =>
               \A a \in 1..Len(group.t.fields) :
                   group.t.fields[a].typ.k = "map" => group.t.fields[a].typ.key.k = "string"

EntryLess(a, b) ==
    StrLess(LineKey(a), LineKey(b)) \/ (LineKey(a) = LineKey(b) /\ StrLess(LineSub(a), LineSub(b)))

\* C6: the text of an Encode call does not depend on the map iteration order
\* nor on the order the fields are declared in; headers come in ascending
\* order of group name, the lines of a group in ascending order of key and
\* then of sub-key (the bare key first), and exactly one blank line stands
\* between two groups, none before the first or after the last.
SortedOutput ==
    Encoded =>
        LET L == LinesOf(ecall.out)
        IN  /\ ecall.out # <<>> => ecall.out[Len(ecall.out)] = LF
            /\ L # <<>> => IsHeaderLine(L[1])
            /\ \A i \in 1..Len(L) :
                  /\ L[i] = <<>> => i > 1 /\ i < Len(L) /\ IsHeaderLine(L[i + 1])
                  /\ (IsHeaderLine(L[i]) /\ i > 1) => L[i - 1] = <<>> /\ L[i - 2] # <<>>
                  /\ L[i] # <<>> => IsHeaderLine(L[i]) \/ IsEntryLine(L[i])
            /\ \A i, j \in 1..Len(L) :
                  (i < j /\ IsHeaderLine(L[i]) /\ IsHeaderLine(L[j]))
                      => StrLess(HeaderName(L[i]), HeaderName(L[j]))
            /\ \A i \in 1..(Len(L) - 1) :
                  (IsEntryLine(L[i]) /\ IsEntryLine(L[i + 1])) => EntryLess(L[i], L[i + 1])
            /\ Labels(ecall.out)
                  = Labels(EncodeCall(Records[ecall.arg], ~ecall.ord, ecall.pre.groups).out)
            /\ StringKeyed(Argument)
                  => ecall.out = EncodeCall(Records[ecall.arg], ~ecall.ord, ecall.pre.groups).out
            /\ DistinctNames(Argument)
                  => ecall.out = EncodeCall(Mirror(Records[ecall.arg]), ecall.ord,
                                            ecall.pre.groups).out

SortedOutputWitness ==
    /\ Encoded /\ ecall.n = 1 /\ ecall.arg = 40 /\ ~ecall.ord
    /\ Records[40].t.fields[1].name = <<"Z", "e", "d">>
    /\ ecall.out = <<"[", "A", "l", "p", "h", "a", "]", LF, "m", "[", "a", "]", "=", "2", LF, "m", "[", "b", "]", "=", "1", LF, LF, "[", "z", "]", LF, "j", "=", "7", LF, "k", "=", "x", LF>>

\* the first line of the document that is neither blank nor a comment, 0 if none
FirstSignificant(doc) ==
    MinOr0({i \in 1..Len(doc) : Shape[doc[i]].kind \notin {"comment", "blank"}})
\* the targets Decode accepts: non-nil pointers to a struct
ValidTarget ==
    /\ Targets[dcall.t].t.k = "ptr" /\ ~Targets[dcall.t].v.nil
    /\ Targets[dcall.t].t.elem.k = "struct"

\* C7: when the first line of the document that is neither blank nor a
\* comment is a key-value line, Decode fails with the error of a key-value
\* pair outside a group; no group is created and no entry is recorded or bound.
EntryOutsideGroup ==
    ( /\ obj = "decoder" /\ dcall.n = 1 /\ ValidTarget
      /\ FirstSignificant(dcall.doc) > 0
      /\ Shape[dcall.doc[MinOr0({FirstSignificant(dcall.doc)} \ {0})]].kind = "entry" )
    => /\ dcall.err.type = "ErrKeyValuePairMustBeContainedInAGroup"
       /\ dcall.err.LineNumber = FirstSignificant(dcall.doc)
       /\ dec.groups = EmptyFn
       /\ dec.currentGroupName = <<>>
       /\ v = dcall.pre.v

EntryOutsideGroupWitness ==
    /\ obj = "decoder" /\ dcall.n = 1 /\ dcall.t = 1 /\ dcall.doc = <<7, 8, 3>>
    /\ dcall.err = ErrKeyValuePairMustBeContainedInAGroup(<<"k", " ", "=", " ", "a">>, 3)
    /\ dec.groups = EmptyFn

\* C8: Decode checks its argument before it reads: not a pointer (the
\* untyped nil too) is ErrParameterMustBePointer, a nil pointer is
\* ErrParameterMustNotBeNil whatever it points to, a pointer to something
\* that is no struct is ErrInvalidParameterType; in the three cases nothing
\* is read and the argument is left as it was.
DecodeValidates ==
    (obj = "decoder" /\ dcall.n >= 1) =>
        LET arg == dcall.pre.v
            rejected ==
                IF arg.t.k # "ptr" THEN ErrParameterMustBePointer
                ELSE IF arg.v.nil THEN ErrParameterMustNotBeNil
                ELSE IF arg.t.elem.k # "struct" THEN ErrInvalidParameterType
                ELSE NoErr
        IN  IF rejected # NoErr
            THEN dcall.err = rejected /\ v = arg /\ dec = dcall.pre.dec
            ELSE dcall.err.type \notin {"ErrParameterMustBePointer", "ErrParameterMustNotBeNil",
                                        "ErrInvalidParameterType"}

\* a nil *string: the nil check comes before the check of the pointee type
DecodeValidatesWitness ==
    /\ obj = "decoder" /\ dcall.n = 1 /\ dcall.doc = <<1, 3>>
    /\ dcall.pre.v.t.k = "ptr" /\ dcall.pre.v.t.elem.k = "string" /\ dcall.pre.v.v.nil
    /\ dcall.err = ErrParameterMustNotBeNil
    /\ dec.r = <<"[", "g", "]", LF, "k", " ", "=", " ", "a">> /\ dec.lineNumber = 0

\* a struct, or a chain of non-nil pointers that ends at one
RECURSIVE StructBehind(_)
StructBehind(rv) ==
    rv.t.k = "struct" \/ (rv.t.k = "ptr" /\ ~rv.v.nil /\ StructBehind(Elem(rv)))

\* C9: Encode takes a struct or a chain of non-nil pointers to one; anything
\* else, the untyped nil and a nil pointer included, is
\* ErrInvalidParameterType; and when Encode or Marshal returns an error
\* nothing has been written.
EncodeRejects ==
    /\ (obj = "encoder" /\ ecall.n >= 1) =>
          /\ StructBehind(Records[ecall.arg]) <=> ecall.err # ErrInvalidParameterType
          /\ ecall.err # NoErr => ecall.out = <<>> /\ enc.w = ecall.pre.w
    /\ rt.step # "none" =>
          /\ StructBehind(Records[rt.arg]) <=> rt.err # ErrInvalidParameterType
          /\ rt.err # NoErr => rt.data = <<>>

\* the first group of the record was collected when the second one failed
EncodeRejectsWitness ==
    /\ obj = "encoder" /\ ecall.n = 1 /\ ecall.arg = 44
    /\ ecall.err.type = "ErrUnsupportedValueType"
    /\ enc.groups # EmptyFn
    /\ enc.w = <<>>

\* the type of a group: a struct or a pointer to a struct
GroupKind(typ) == typ.k = "struct" \/ (typ.k = "ptr" /\ typ.elem.k = "struct")
\* the first field of the struct type t is exported, not ignored and no group
OffenderFirst(t) ==
    /\ Len(t.fields) >= 1
    /\ IsExported(t.fields[1]) /\ ~isIgnored(t.fields[1].tag)
    /\ ~GroupKind(t.fields[1].typ)
\* the errors of reading the document
ScanErrors ==
    {"ErrInvalidGroupName", "ErrInvalidEntry", "ErrInvalidKey",
     "ErrKeyValuePairMustBeContainedInAGroup"}
\* some field of the groups of the struct type t has this name and this declared type
IsFieldOf(t, name, str) ==
    \E i \in 1..Len(t.fields) :
        LET gt == IF t.fields[i].typ.k = "ptr" THEN t.fields[i].typ.elem ELSE t.fields[i].typ
        IN  gt.k = "struct" /\ "fields" \in DOMAIN gt
            /\ \E j \in 1..Len(gt.fields) : gt.fields[j].name = name /\ gt.fields[j].typ.str = str

DecodeNamesGroup ==
    (obj = "decoder" /\ dcall.n >= 1 /\ ValidTarget /\ dcall.err.type \notin ScanErrors
       /\ OffenderFirst(v.t.elem))
    => dcall.err = ErrInvalidGroupType(v.t.elem.fields[1].name, v.t.elem.fields[1].typ.str)
EncodeNamesGroup ==
    (obj = "encoder" /\ ecall.n >= 1 /\ StructBehind(Records[ecall.arg])
       /\ OffenderFirst(Argument.t)
       /\ ~(isOmitempty(Argument.t.fields[1].tag)
            /\ IsZero(RV(Argument.t.fields[1].typ, Argument.v[1]))))
    => ecall.err = ErrInvalidGroupType(Argument.t.fields[1].name, Argument.t.fields[1].typ.str)
DecodeNamesField ==
    (obj = "decoder" /\ dcall.n >= 1 /\ dcall.err.type = "ErrCanNotParsed")
    => (dcall.err.Err = ErrUnsupportedValueTypeZero
          => IsFieldOf(v.t.elem, dcall.err.TargetName, dcall.err.TargetType))
EncodeNamesField ==
    (obj = "encoder" /\ ecall.n >= 1 /\ ecall.err.type = "ErrUnsupportedValueType")
    => IsFieldOf(Argument.t, ecall.err.FieldName, ecall.err.FieldType)

\* C10: when Encode or Decode comes to an exported, not ignored top-level
\* field that is neither a struct nor a pointer to a struct, the error is
\* ErrInvalidGroupType with the name and the type of that field; an
\* unsupported-type error names the field and its declared type.
ErrorsNameOffender ==
    DecodeNamesGroup /\ EncodeNamesGroup /\ DecodeNamesField /\ EncodeNamesField

\* the raw values of the catalog that are base-10 integers, with their numbers
Numerals == <<<<"4", "2">>, <<"1">>, <<"3", "0", "0">>, <<"2", "5", "6">>, <<"-", "1">>>>
Numbers == <<42, 1, 300, 256, 0 - 1>>
\* the range of the integer kind of target t: int8, int64 or uint8
InRangeOf(t, n) ==
    IF t = 2 THEN n >= 0 - 128 /\ n <= 127
    ELSE IF t = 4 THEN n >= 0 /\ n <= 255
    ELSE TRUE

\* C11: an integer field takes a base-10 value that lies in the range of its
\* width; a numeric value outside the range (300 into int8, 256 into uint8)
\* makes Decode return a conversion error and nothing is stored.
RangeChecked ==
    \A i \in 1..Len(Numerals) :
        (obj = "decoder" /\ dcall.n >= 1 /\ dcall.t \in {2, 3, 4}
           /\ dcall.doc = ValueDoc(Numerals[i]))
        => IF InRangeOf(dcall.t, Numbers[i])
           THEN dcall.err = NoErr /\ FieldK = Numbers[i]
           ELSE dcall.err.type = "ErrCanNotParsed" /\ FieldK = 0

\* C12: a type with a hook is decoded and encoded by its hook alone:
\* UnmarshalKeyFile gets the value of the entry and its result is the field,
\* its error fails the Decode, and MarshalKeyFile gives the text that Encode
\* writes for the field.
HooksReplaceCodec ==
    /\ (obj = "decoder" /\ dcall.n >= 1 /\ dcall.t = 17 /\ IsValueDoc)
          => dcall.err = NoErr /\ FieldK = <<StoredValue>>
    /\ (obj = "decoder" /\ dcall.n >= 1 /\ dcall.t = 18 /\ IsValueDoc)
          => dcall.err.type = "ErrCanNotParsed"
    /\ (obj = "encoder" /\ ecall.n >= 1 /\ ecall.arg = 45 /\ ecall.pre.groups = EmptyFn)
          => ecall.err = NoErr /\ ecall.out = <<"[", "g", "]", LF, "k", "=", "v", LF>>

\* the struct type of a group field, and field j of group i of the struct
\* value x of type t (the zero value behind a nil group pointer)
GroupStruct(g) == IF g.typ.k = "ptr" THEN g.typ.elem ELSE g.typ
FieldOf(t, x, i, j) ==
    IF t.fields[i].typ.k # "ptr" THEN x[i][j]
    ELSE IF x[i].nil THEN Zero(t.fields[i].typ.elem.fields[j].typ)
    ELSE x[i].elem[j]
HasHeader(doc, gn) ==
    \E i \in 1..Len(doc) : Shape[doc[i]].kind = "header" /\ Shape[doc[i]].name = gn
\* the document holds a line for the field f of the group g, and neither is
\* unexported or ignored
Reaches(doc, g, f) ==
    /\ IsExported(g) /\ ~isIgnored(g.tag)
    /\ IsExported(f) /\ ~isIgnored(f.tag)
    /\ HasHeader(doc, ResolvedName(g))
    /\ Visible(doc, ResolvedName(g), ResolvedName(f)) # {}

\* C13: Decode writes a field only when the field and its group are exported
\* and not ignored, the group stands in the document and the key stands in
\* the group; every other field keeps the value it had, and a group or a key
\* that is absent is no error.
FrameOfDecode ==
    (obj = "decoder" /\ dcall.n >= 1 /\ ValidTarget /\ WellFormed(dcall.doc)
       /\ \A i \in 1..Len(v.t.elem.fields) : GroupKind(v.t.elem.fields[i].typ))
    => /\ dcall.err.type \in {"nil", "ErrCanNotParsed"}
       /\ \A i \in 1..Len(v.t.elem.fields) :
             \A j \in 1..Len(GroupStruct(v.t.elem.fields[i]).fields) :
                 ~Reaches(dcall.doc, v.t.elem.fields[i], GroupStruct(v.t.elem.fields[i]).fields[j])
                     => FieldOf(v.t.elem, v.v.elem, i, j)
                            = FieldOf(v.t.elem, dcall.pre.v.v.elem, i, j)

TrueSpellings == {<<"t", "r", "u", "e">>, <<"T", "R", "U", "E">>, <<"T", "r", "u", "e">>, <<"t", "R", "u", "E">>}
FalseSpellings == {<<"f", "a", "l", "s", "e">>, <<"F", "A", "L", "S", "E">>, <<"F", "a", "l", "s", "e">>, <<"f", "A", "l", "S", "e">>}

\* C14: a boolean field decodes the word true in any mix of upper and lower
\* case to true and the word false in any mix to false; Encode writes the
\* lower-case words.
BoolAnyCase ==
    /\ \A raw \in TrueSpellings \cup FalseSpellings :
          (obj = "decoder" /\ dcall.n >= 1 /\ dcall.t = 5 /\ dcall.doc = ValueDoc(raw))
          => dcall.err = NoErr /\ FieldK = (raw \in TrueSpellings)
    /\ (obj = "encoder" /\ ecall.n >= 1 /\ ecall.arg = 10 /\ ecall.pre.groups = EmptyFn)
          => ecall.out = <<"[", "g", "]", LF, "k", "=", "t", "r", "u", "e", LF>>
    /\ (obj = "encoder" /\ ecall.n >= 1 /\ ecall.arg = 16 /\ ecall.pre.groups = EmptyFn)
          => ecall.out = <<"[", "g", "]", LF, "k", "=", "f", "a", "l", "s", "e", LF>>

\* C15: unescape(escape(s)) = s for every text s of spaces, tabs, line feeds,
\* carriage returns and printable characters.
EscapeRoundTrip ==
    (call.op = "escape" /\ call.step = "done") => call.back = call.s

\* C16: splitting the joined value of a list of strings on the separator of
\* its tag gives the list back, elements that hold the separator included.
JoinSplitInverse ==
    (call.op = "join" /\ call.step = "done") => call.parts = call.xs

\* the group names and the keys written in a document
GroupNames(doc) == {Shape[doc[i]].name : i \in {j \in 1..Len(doc) : Shape[doc[j]].kind = "header"}}
KeyNames(doc) == {Shape[doc[i]].key : i \in {j \in 1..Len(doc) : Shape[doc[j]].kind = "entry"}}
\* some (group, key, subkey) is written on two lines under one header
WrittenTwice(doc) ==
    \E i, j \in 1..Len(doc) :
        /\ i < j
        /\ Shape[doc[i]].kind = "entry" /\ Shape[doc[j]].kind = "entry"
        /\ \A h \in i..j : Shape[doc[h]].kind # "header"
        /\ Shape[doc[i]].key = Shape[doc[j]].key
        /\ Shape[doc[i]].sub = Shape[doc[j]].sub
        /\ Shape[doc[i]].val # Shape[doc[j]].val

\* C17: the scanned document holds one value for each (group, key, subkey),
\* the value of the last line that writes it under the group's header, and
\* that value is the one bound to the record: `k = a` followed by `k=b` binds
\* "b" to a string field, `k=b` followed by `k = a` binds "a".
LastWriteWins ==
    (obj = "decoder" /\ dcall.n >= 1 /\ ValidTarget /\ WellFormed(dcall.doc)) =>
        /\ \A g \in GroupNames(dcall.doc) : \A k \in KeyNames(dcall.doc) :
              \A sub \in SubKeys(dcall.doc, g, k) :
                  /\ g \in DOMAIN dec.groups
                  /\ k \in DOMAIN dec.groups[g]
                  /\ sub \in DOMAIN dec.groups[g][k]
                  /\ dec.groups[g][k][sub] = LastValue(dcall.doc, g, k, sub)
        /\ (dcall.t = 1 /\ <<>> \in SubKeys(dcall.doc, <<"g">>, <<"k">>)) =>
              /\ dcall.err = NoErr
              /\ FieldK = LastValue(dcall.doc, <<"g">>, <<"k">>, <<>>)
LastWriteWinsWitness ==
    /\ Decoded /\ dcall.t = 1 /\ WrittenTwice(dcall.doc)
    /\ dcall.doc = <<1, 4, 3>>
    /\ FieldK = <<"a">>

\* C18: the result of a call depends only on the call's own record or input:
\* an Encode writes what an Encoder that has encoded nothing writes for the
\* record, and a Decode binds what a Decoder that has scanned nothing binds
\* from the input the call reads, so a second Encode writes only groups and
\* keys of the second record and a second Decode binds no entry scanned by
\* the first.
NoStateSurvives ==
    /\ (obj = "encoder" /\ ecall.n >= 1) =>
          ecall.out = EncodeCall(Records[ecall.arg], ecall.ord, EmptyFn).out
    /\ (obj = "decoder" /\ dcall.n >= 1) =>
          v.v = DecodeCall(dcall.pre.v, NewDecoder(dcall.pre.dec.r)).v

\* the failures of a conversion: of a parse of package strconv, of the hook
\* of the field's type, of a map key, of a kind outside the matrix
BareErrors ==
    {"strconv.ErrSyntax", "strconv.ErrRange", "hook error", "ErrInvalidMapKeyType",
     "ErrUnsupportedValueType"}
\* the target has a field bound to key, declared with the name and the type
IsBoundField(t, key, name, str) ==
    \E i \in 1..Len(t.fields) :
        /\ IsGroupType(t.fields[i].typ)
        /\ \E j \in 1..Len(GroupStruct(t.fields[i]).fields) :
              LET f == GroupStruct(t.fields[i]).fields[j]
              IN  ResolvedName(f) = key /\ f.name = name /\ f.typ.str = str

\* C19: Decode never returns the failure of a conversion on its own; it
\* returns ErrCanNotParsed holding the failure, the key, the name and the
\* type of the field the value was meant for: `k = value` into an int64
\* field K gives {ErrSyntax, k, K, int64}, a failing hook its own error and a
\* map with int64 keys ErrInvalidMapKeyType, each inside ErrCanNotParsed.
ConversionAttributed ==
    (obj = "decoder" /\ dcall.n >= 1) =>
        /\ dcall.err.type \notin BareErrors
        /\ dcall.err.type = "ErrCanNotParsed" =>
              /\ dcall.err.Err.type \in BareErrors
              /\ IsBoundField(v.t.elem, dcall.err.SourceKey, dcall.err.TargetName,
                              dcall.err.TargetType)
        /\ (dcall.t = 3 /\ dcall.doc = ValueDoc(<<"v", "a", "l", "u", "e">>)) =>
              dcall.err = ErrCanNotParsed(ErrSyntax, <<"k">>, <<"K">>, "int64")
        /\ (dcall.t = 18 /\ IsValueDoc) =>
              dcall.err = ErrCanNotParsed([type |-> "hook error"], <<"k">>, <<"K">>,
                                          TargetTypes[18].fields[1].typ.fields[1].typ.str)
        /\ (dcall.t = 19 /\ IsValueDoc) =>
              dcall.err = ErrCanNotParsed(ErrInvalidMapKeyType, <<"k">>, <<"K">>,
                                          "map[int64]string")
ConversionAttributedWitness ==
    /\ obj = "decoder" /\ dcall.n >= 1
    /\ dcall.t = 3 /\ dcall.doc = ValueDoc(<<"v", "a", "l", "u", "e">>)
    /\ dcall.err.type = "ErrCanNotParsed" /\ dcall.err.Err = ErrSyntax
    /\ dcall.err.TargetName = <<"K">>

\* the error is ErrInvalidMapKeyType, alone or inside ErrCanNotParsed
IsMapKeyError(err) ==
    \/ err.type = "ErrInvalidMapKeyType"
    \/ (err.type = "ErrCanNotParsed" /\ err.Err.type = "ErrInvalidMapKeyType")

\* C20: a map field with int64 keys is rejected by Decode and by Encode with
\* the map key type error: Decode of a well-formed document leaves the map
\* nil and Encode writes no line for it.
MapKeyRejected ==
    /\ (obj = "decoder" /\ dcall.n >= 1 /\ dcall.t = 19 /\ WellFormed(dcall.doc)) =>
          /\ IsMapKeyError(dcall.err)
          /\ FieldK.nil
    /\ (obj = "encoder" /\ ecall.n >= 1 /\ ecall.arg = 24) =>
          /\ IsMapKeyError(ecall.err)
          /\ ecall.out = <<>>

\* sep stands in value at position i
At(value, i, sep) ==
    i + Len(sep) - 1 <= Len(value) /\ SubSeq(value, i, i + Len(sep) - 1) = sep
\* the segments of value between the occurrences of sep: an occurrence behind
\* a backslash is a part of its segment, without the backslash; a last
\* segment that is empty is left out
RECURSIVE Cut(_, _, _, _, _)
Cut(value, sep, i, result, buff) ==
    IF i > Len(value) THEN IF buff # <<>> THEN Append(result, buff) ELSE result
    ELSE IF value[i] = BSL /\ At(value, i + 1, sep)
    THEN Cut(value, sep, i + 1 + Len(sep), result, buff \o sep)
    ELSE IF At(value, i, sep)
    THEN Cut(value, sep, i + Len(sep), Append(result, buff), <<>>)
    ELSE Cut(value, sep, i + 1, result, Append(buff, value[i]))
Segments(value, sep) == Cut(value, sep, 1, <<>>, <<>>)
HasBackslash(value) == \E i \in 1..Len(value) : value[i] = BSL

\* C21: split on a one-character separator cuts the value at every separator
\* that does not follow a backslash; a separator that follows a backslash
\* stays in its segment and the backslash is removed: `a\;b;c` split on `;`
\* is ["a;b", "c"].
EscapedSeparator ==
    (call.op = "split" /\ call.step = "done" /\ call.tag = <<"k">>) =>
        call.parts = Segments(call.s, <<";">>)

\* C22: split on the separator `::` of the tag `k,sep=::` cuts the value at
\* every occurrence of `::`, as it does for one character: `a::a` is
\* ["a", "a"].
OpaqueSeparator ==
    (call.op = "split" /\ call.step = "done" /\ call.tag # <<"k">>
       /\ ~HasBackslash(call.s)) =>
        call.parts = Segments(call.s, <<":", ":">>)

\* the targets with a list field bound to key k: lists of strings, of
\* integers (with the separators `;` and `,`), of any-typed values and of
\* time.Time
ListTargets == {9, 10, 12, 13, 20}

\* C23: the line `k =` decodes into a list field as a list without elements,
\* whatever the kind of the elements, and Decode returns no error.
EmptyListValue ==
    (obj = "decoder" /\ dcall.n >= 1 /\ dcall.t \in ListTargets
       /\ dcall.doc = ValueDoc(<<>>)) =>
        /\ dcall.err = NoErr
        /\ FieldK.elems = <<>>
EmptyListValueWitness ==
    /\ Decoded /\ dcall.t = 10 /\ dcall.doc = ValueDoc(<<>>)
    /\ StoredValue = <<>>
    /\ ~FieldK.nil /\ Len(FieldK.elems) = 0

\* the parts of a tag as they were written, and what they say
IsMarker(tok) == tok \in {<<"-">>, <<"o", "m", "i", "t", "e", "m", "p", "t", "y">>}
HasEquals(tok) == \E i \in 1..Len(tok) : tok[i] = "="
IsSepDirective(tok) == HasPrefix(tok, <<"s", "e", "p", "=">>)
Ignored(xs) == \E i \in 1..Len(xs) : TrimSpace(xs[i]) = <<"-">>
\* the key of a declaration with the identifier name and the tag parts xs:
\* the first part that is no marker and that Skip does not leave out, the
\* spaces around it aside, and the identifier when there is no such part or
\* the part is empty
Renamed(xs, name, Skip(_)) ==
    LET hits == {i \in 1..Len(xs) : ~IsMarker(TrimSpace(xs[i])) /\ ~Skip(TrimSpace(xs[i]))}
    IN  IF hits = {} THEN name
        ELSE IF TrimSpace(xs[Min(hits)]) = <<>> THEN name
        ELSE TrimSpace(xs[Min(hits)])
\* the text of the group G with the field K = "v", both declared with xs
Written(xs, Skip(_)) ==
    <<"[">> \o Renamed(xs, <<"G">>, Skip) \o <<"]", LF>> \o Renamed(xs, <<"K">>, Skip) \o <<"=", "v", LF>>

Flaw ==
    (9 :> "ErrInvalidEntry") @@ (10 :> "ErrInvalidGroupName") @@ (11 :> "ErrInvalidKey")
    @@ (13 :> "ErrInvalidGroupName")
\* the first line of the document the scan cannot accept, 0 if none
FirstBad(doc) ==
    MinOr0({i \in 1..Len(doc) :
               \/ Shape[doc[i]].kind = "invalid"
               \/ (Shape[doc[i]].kind = "entry" /\ GroupOf(doc, i) = <<>>)})

\* C25: the first Decode of a document with a line the scan cannot accept
\* returns the error of the first such line, with the number of the line in
\* the document, blank lines and comments counted from 1, and its text
\* without the spaces around it; the lines behind it are not read.
ScanStops ==
    (obj = "decoder" /\ dcall.n = 1 /\ ValidTarget /\ FirstBad(dcall.doc) > 0) =>
        LET i == FirstBad(dcall.doc)
        IN  /\ dcall.err.type =
                  IF Shape[dcall.doc[i]].kind = "entry"
                  THEN "ErrKeyValuePairMustBeContainedInAGroup" ELSE Flaw[dcall.doc[i]]
            /\ dcall.err.LineNumber = i
            /\ dcall.err.Line = TrimSpace(Lines[dcall.doc[i]])
            /\ dec.r = Text(SubSeq(dcall.doc, i + 1, Len(dcall.doc)))
ScanStopsWitness ==
    /\ obj = "decoder" /\ dcall.n = 1 /\ dcall.t = 1 /\ dcall.doc = <<7, 1, 12, 11>>
    /\ dcall.err = ErrInvalidKey(<<"=", " ", "v">>, 4)

\* the field j of the group i of the target holds another value than before the call
Changed(i, j) ==
    FieldOf(v.t.elem, v.v.elem, i, j) # FieldOf(v.t.elem, dcall.pre.v.v.elem, i, j)
\* the field j of the group i is the one the conversion error names
IsFailing(i, j) ==
    LET f == GroupStruct(v.t.elem.fields[i]).fields[j]
    IN  /\ ResolvedName(f) = dcall.err.SourceKey
        /\ f.name = dcall.err.TargetName
        /\ f.typ.str = dcall.err.TargetType
\* a structural error leaves the target as it was
ScanErrorKeepsTarget ==
    (obj = "decoder" /\ dcall.n >= 1 /\ ValidTarget /\ dcall.err.type \in ScanErrors) =>
        v = dcall.pre.v
\* a conversion error changes only fields declared before the failing one
BindingStopsAtFailure ==
    (obj = "decoder" /\ dcall.n >= 1 /\ ValidTarget /\ dcall.err.type = "ErrCanNotParsed"
       /\ \A i \in 1..Len(v.t.elem.fields) : GroupKind(v.t.elem.fields[i].typ)) =>
        \E i \in 1..Len(v.t.elem.fields) :
            \E j \in 1..Len(GroupStruct(v.t.elem.fields[i]).fields) :
                /\ IsFailing(i, j)
                /\ \A a \in 1..Len(v.t.elem.fields) :
                      \A b \in 1..Len(GroupStruct(v.t.elem.fields[a]).fields) :
                          Changed(a, b) => (a < i \/ (a = i /\ b < j))
\* a group of a kind that cannot be a group stops the binding: the groups
\* declared from it on are as they were
GroupErrorStopsBinding ==
    (obj = "decoder" /\ dcall.n >= 1 /\ ValidTarget /\ dcall.err.type = "ErrInvalidGroupType") =>
        \E i \in 1..Len(v.t.elem.fields) :
            /\ v.t.elem.fields[i].name = dcall.err.GroupName
            /\ \A a \in i..Len(v.t.elem.fields) : v.v.elem[a] = dcall.pre.v.v.elem[a]

\* C26: a Decode that fails with a structural error leaves the target as it
\* was before the call, wherever the offending line stands; a Decode that
\* fails while binding changes only fields declared before the failing one.
ScanBeforeBind ==
    /\ ScanErrorKeepsTarget
    /\ BindingStopsAtFailure
    /\ GroupErrorStopsBinding

\* the keys with a line behind the last header of the group
VisibleKeys(doc, g) == {k \in KeyNames(doc) : Visible(doc, g, k) # {}}
\* some group of the document has two headers, with an entry under the first
Reopened(doc) ==
    \E i, j, h \in 1..Len(doc) :
        /\ i < j /\ j < h
        /\ Shape[doc[i]].kind = "header" /\ Shape[doc[h]].kind = "header"
        /\ Shape[doc[i]].name = Shape[doc[h]].name
        /\ Shape[doc[j]].kind = "entry" /\ GroupOf(doc, j) = Shape[doc[i]].name

\* C27: after the scan of a well-formed document each group holds the keys
\* and sub-keys of the lines that stand behind its last header and under no
\* later header of another group, and nothing else: the entries under an
\* earlier header of the same name are gone, and a string field is bound only
\* from what is left.
LastHeaderWins ==
    (obj = "decoder" /\ dcall.n >= 1 /\ ValidTarget /\ WellFormed(dcall.doc)) =>
        /\ DOMAIN dec.groups = GroupNames(dcall.doc)
        /\ \A g \in GroupNames(dcall.doc) :
              /\ DOMAIN dec.groups[g] = VisibleKeys(dcall.doc, g)
              /\ \A k \in VisibleKeys(dcall.doc, g) :
                    DOMAIN dec.groups[g][k] = SubKeys(dcall.doc, g, k)
        /\ (dcall.t = 1 /\ Visible(dcall.doc, <<"g">>, <<"k">>) = {}) => FieldK = <<>>
LastHeaderWinsWitness ==
    /\ Decoded /\ dcall.t = 1 /\ dcall.doc = <<1, 3, 1, 5>> /\ Reopened(dcall.doc)
    /\ DOMAIN dec.groups[<<"g">>][<<"k">>] = {<<"t", "r">>}

\* the document holds the key k of the group g with sub-keys only
OnlySubKeys(doc) ==
    /\ SubKeys(doc, <<"g">>, <<"k">>) # {}
    /\ <<>> \notin SubKeys(doc, <<"g">>, <<"k">>)

\* C28: when a well-formed document holds `k[s] = v` lines for the key of a
\* field that is no map and no line `k = v`, the field is bound from the
\* empty value: a string field becomes "", whatever it held, and a field of
\* an integer kind or a boolean field makes Decode return the conversion
\* error of the empty text for that field.
BareEntryOnly ==
    (obj = "decoder" /\ dcall.n >= 1 /\ WellFormed(dcall.doc) /\ OnlySubKeys(dcall.doc)) =>
        /\ dcall.t \in {1, 36} => (dcall.err = NoErr /\ FieldK = <<>>)
        /\ dcall.t \in {2, 3, 4, 5} =>
              /\ dcall.err.type = "ErrCanNotParsed"
              /\ dcall.err.Err = ErrSyntax
              /\ dcall.err.SourceKey = <<"k">> /\ dcall.err.TargetName = <<"K">>
BareEntryOnlyWitness ==
    /\ Decoded /\ dcall.n = 1 /\ dcall.t = 36 /\ dcall.doc = <<1, 5>>
    /\ OnlySubKeys(dcall.doc)
    /\ dcall.pre.v.v.elem[1][1] = <<"o", "l", "d">>
    /\ FieldK = <<>>

\* C29: the text of an Encode on a new Encoder has no two headers of the same
\* name and, under one header, no two lines with the same key and sub-key;
\* of two fields with the same key, or two groups with the same name, the one
\* declared later is the one written.
NoDuplicateOutput ==
    (Encoded /\ ecall.pre.groups = EmptyFn) =>
        LET L == LinesOf(ecall.out)
        IN  /\ \A i, j \in 1..Len(L) :
                  (i < j /\ IsHeaderLine(L[i]) /\ IsHeaderLine(L[j])) => L[i] # L[j]
            /\ \A i, j \in 1..Len(L) :
                  ( /\ i < j /\ IsEntryLine(L[i]) /\ IsEntryLine(L[j])
                    /\ \A h \in i..j : ~IsHeaderLine(L[h]) )
                  => KeyPart(L[i]) # KeyPart(L[j])
            /\ ecall.arg = 41 => ecall.out = <<"[", "g", "]", LF, "k", "=", "5", LF>>
            /\ ecall.arg = 46 => ecall.out = <<"[", "g", "]", LF, "j", "=", "y", LF>>
NoDuplicateOutputWitness ==
    /\ Encoded /\ ecall.pre.groups = EmptyFn /\ ecall.arg = 46
    /\ ResolvedName(Records[46].t.fields[1]) = ResolvedName(Records[46].t.fields[2])
    /\ LinesOf(ecall.out) = <<<<"[", "g", "]">>, <<"j", "=", "y">>>>

====
